---- MODULE Spec2Model ----
(***************************************************************************)
(* A model of skill-scraper: the persistence store (storage.py), the link  *)
(* extractor (scraper.py), the skill extractor/installer                   *)
(* (skill_extractor.py) and the batch workflow (main.py).                  *)
(*                                                                         *)
(* Text is modelled as sequences of characters so that concatenation and   *)
(* stripping are computed, never assumed.  Dictionaries are functions      *)
(* whose DOMAIN is the set of keys present.                                *)
(***************************************************************************)
EXTENDS Integers, Sequences, FiniteSets, TLC

VARIABLES
    storage_file,   \* storage.py: repos.json
    sv,             \* storage.py: the frame of the current save_repos call
    mg,             \* storage.py: the frame of a direct _merge_repos call
    sc,             \* scraper.py: the frame of an _extract_repos call
    cfg,            \* config.py: the ExtractionConfig of the extractor
    remote,         \* the marker folders each remote repository holds
    installed,      \* the installation roots ./.claude/skills and ~/.claude/skills
    staging,        \* skill_extractor.py: self.staging_dir and the units under it
    tmpdirs,        \* the temporary clone directories present on disk
    ex,             \* skill_extractor.py: the frame of the extract_skills call
    ins,            \* skill_extractor.py: the frame of the install_skills call
    caller,         \* what the caller of the extractor holds between calls
    mn,             \* main.py: the position and locals of main()
    gen,            \* skill_generator.py: the frame and history of generate_skill calls
    pm,             \* skill_extractor.py: the frame of a _parse_skill_metadata call
    dt,             \* skill_detector.py: the frame of a detect_skills call
    cp,             \* skill_extractor.py: the frame of a _copy_skill_files call
    en,             \* skill_extractor.py: a SKILL.md and the enrichments applied to it
    sa              \* scraper.py: the frame of a scrape_awesome_repo call

storeVars == <<storage_file, sv, mg, sc>>
diskVars == <<installed, staging, tmpdirs>>
extVars == <<cfg, remote, installed, staging, tmpdirs, ex, ins, caller>>
auxVars == <<gen, pm, dt, cp, en, sa>>
vars == <<storage_file, sv, mg, sc, cfg, remote, installed, staging, tmpdirs, ex, ins, caller, mn,
          gen, pm, dt, cp, en, sa>>

----------------------------------------------------------------------------
(* Generic helpers                                                         *)

Range(s) == {s[i] : i \in DOMAIN s}

\* dict.update(other) with the plausible slip of keeping the old values
DictUpdateKeepOld(d, other) ==
    [f \in DOMAIN d \cup DOMAIN other |-> IF f \in DOMAIN d THEN d[f] ELSE other[f]]

\* dict.update(other): other's keys win, the rest is kept
DictUpdate(d, other) ==
    [f \in DOMAIN d \cup DOMAIN other |-> IF f \in DOMAIN other THEN other[f] ELSE d[f]]

\* d[k] = v on a dict
DictSet(d, k, v) == [f \in DOMAIN d \cup {k} |-> IF f = k THEN v ELSE d[f]]

----------------------------------------------------------------------------
(* storage.py                                                              *)

\* the storage path: whether repos.json exists, and the JSON array it holds
NoFile == [exists |-> FALSE, content |-> <<>>]
FileOf(list) == [exists |-> TRUE, content |-> list]
NoSource == "None"

\* bound: the number of distinct datetime.now() values a run can observe
MaxTime == 2
Times == 1..MaxTime

FullNames == {"o1/r1", "o2/r2"}
Descriptions == {"d1", "d2"}
Sources == {"s1"}

\* all dicts over the optional fields in `opt`, each present or absent
RECURSIVE OptDicts(_, _)
OptDicts(opt, vals) ==
    IF opt = {} THEN {[f \in {} |-> 0]}
    ELSE LET f == CHOOSE x \in opt : TRUE
             rest == OptDicts(opt \ {f}, vals)
         IN  rest \cup {DictSet(d, f, v) : d \in rest, v \in vals[f]}

\* repository records as the scraper hands them over: an identity and an
\* optional description (scraper.py:147-152, 182)
FreshRecords ==
    {DictSet(d, "full_name", k) :
        k \in FullNames,
        d \in OptDicts({"description"}, [description |-> Descriptions])}

\* records as any earlier save may have left them
AnyRecords ==
    {DictSet(d, "full_name", k) :
        k \in FullNames,
        d \in OptDicts({"description", "scraped_at"},
                       [description |-> Descriptions, scraped_at |-> Times])}

Keys(list) == {list[i]["full_name"] : i \in DOMAIN list}

UniqueKeys(list) ==
    \A i, j \in DOMAIN list : list[i]["full_name"] = list[j]["full_name"] => i = j

\* lists holding at most one record per full_name, as _extract_repos builds them
KeyedLists(recs) ==
    {l \in UNION {[1..n -> recs] : n \in 0..Cardinality(FullNames)} : UniqueKeys(l)}

\* --- _merge_repos -------------------------------------------------------
\* The dict repo_map holds references: a slot <<"E", i>> is the object
\* existing[i], a slot <<"N", j>> the object new[j].  update() mutates the
\* object a slot refers to.

Deref(st, ref) == IF ref[1] = "E" THEN st.existing[ref[2]] ELSE st.new[ref[2]]

SlotOf(st, key) ==
    {p \in DOMAIN st.map : Deref(st, st.map[p])["full_name"] = key}

\* repo_map = {repo['full_name']: repo for repo in existing}
RECURSIVE SeedMap(_, _)
SeedMap(st, i) ==
    IF i > Len(st.existing) THEN st
    ELSE LET key == st.existing[i]["full_name"]
             at == SlotOf(st, key)
         IN  IF at # {}
             THEN SeedMap([st EXCEPT !.map[CHOOSE p \in at : TRUE] = <<"E", i>>], i + 1)
             ELSE SeedMap([st EXCEPT !.map = Append(@, <<"E", i>>)], i + 1)

\* one pass of `for new_repo in new`, with the plausible slip of appending
\* without looking the key up
MergeOneAlwaysAdd(st, j) == [st EXCEPT !.map = Append(@, <<"N", j>>)]

MergeOne(st, j) ==
    LET new_repo == st.new[j]
        at == SlotOf(st, new_repo["full_name"])
    IN  IF at # {}
        THEN LET ref == st.map[CHOOSE p \in at : TRUE]
             IN  IF ref[1] = "E"
                 THEN [st EXCEPT !.existing[ref[2]] = DictUpdate(@, new_repo)]
                 ELSE [st EXCEPT !.new[ref[2]] = DictUpdate(@, new_repo)]
        ELSE [st EXCEPT !.map = Append(@, <<"N", j>>)]

RECURSIVE MergeLoop(_, _)
MergeLoop(st, j) ==
    IF j > Len(st.new) THEN st ELSE MergeLoop(MergeOne(st, j), j + 1)

\* the value returned, and the two argument lists as the call leaves them
MergeRepos(existing, new) ==
    LET st == MergeLoop(SeedMap([existing |-> existing, new |-> new, map |-> <<>>], 1), 1)
    IN  [out |-> [p \in DOMAIN st.map |-> Deref(st, st.map[p])],
         existing |-> st.existing,
         new |-> st.new]

\* --- load_repos / exists ------------------------------------------------
Exists(file) == file.exists

LoadRepos(file) == IF ~file.exists THEN <<>> ELSE file.content

\* --- save_repos ---------------------------------------------------------
\* the stamping with the plausible slip of stamping every record anew
StampAlways(repo, timestamp, source) ==
    LET r1 == DictSet(repo, "scraped_at", timestamp)
    IN  IF source # NoSource THEN DictSet(r1, "source", source) ELSE r1

\* lines 28-32: stamp the caller's records in place
Stamp(repo, timestamp, source) ==
    LET r1 == IF "scraped_at" \notin DOMAIN repo
              THEN DictSet(repo, "scraped_at", timestamp) ELSE repo
    IN  IF source # NoSource /\ "source" \notin DOMAIN r1
        THEN DictSet(r1, "source", source) ELSE r1

StampAll(repos, timestamp, source) ==
    [i \in DOMAIN repos |-> Stamp(repos[i], timestamp, source)]

ShouldMerge(merge, file) == merge /\ Exists(file)

\* lines 34-40, with the plausible slip of always merging into what exists
ReposToSaveAlwaysMerge(repos, merge, file) ==
    MergeRepos(LoadRepos(file), repos).out

ReposToSave(repos, merge, file) ==
    IF ShouldMerge(merge, file)
    THEN MergeRepos(LoadRepos(file), repos).out
    ELSE repos

SvIdle ==
    [pc |-> "idle", repos |-> <<>>, merge |-> FALSE, source |-> NoSource,
     timestamp |-> 0, before |-> NoFile]

\* a caller enters save_repos(repos, merge, source); datetime.now() is read
SaveReposCall ==
    /\ sv.pc = "idle"
    /\ \E repos \in KeyedLists(FreshRecords) \cup {LoadRepos(storage_file)},
          merge \in BOOLEAN, source \in Sources \cup {NoSource}, ts \in Times :
          sv' = [pc |-> "body", repos |-> repos, merge |-> merge, source |-> source,
                 timestamp |-> ts, before |-> storage_file]
    /\ UNCHANGED <<storage_file, mg, sc, extVars, mn, auxVars>>

\* the body of save_repos, lines 26-46
SaveReposBody ==
    /\ sv.pc = "body"
    /\ LET stamped == StampAll(sv.repos, sv.timestamp, sv.source)
       IN  /\ storage_file' = FileOf(ReposToSave(stamped, sv.merge, storage_file))
           /\ sv' = [sv EXCEPT !.pc = "done", !.repos = stamped]
    /\ UNCHANGED <<mg, sc, extVars, mn, auxVars>>

\* save_repos returns (line 46) and its frame is dropped
SaveReposReturn ==
    /\ sv.pc = "done"
    /\ sv' = SvIdle
    /\ UNCHANGED <<storage_file, mg, sc, extVars, mn, auxVars>>

MgIdle == [pc |-> "idle", existing |-> <<>>, new |-> <<>>, out |-> <<>>,
           existing0 |-> <<>>, new0 |-> <<>>]

\* a direct call of _merge_repos(existing, new), as the tests make it
MergeReposApply ==
    /\ mg.pc = "call"
    /\ LET m == MergeRepos(mg.existing, mg.new)
       IN  mg' = [mg EXCEPT !.pc = "done", !.out = m.out,
                            !.existing = m.existing, !.new = m.new]
    /\ UNCHANGED <<storage_file, sv, sc, extVars, mn, auxVars>>

----------------------------------------------------------------------------
(* scraper.py                                                              *)

\* bounds: the matches of one document, and the length of a captured name
MaxMatches == 3
MaxNameLen == 2

\* str.rstrip('.') with the plausible slip of dropping one dot only
RStripOneDot(str) ==
    IF Len(str) > 0 /\ str[Len(str)] = "." THEN SubSeq(str, 1, Len(str) - 1) ELSE str

\* str.rstrip('.')
RECURSIVE RStripDot(_)
RStripDot(str) ==
    IF Len(str) > 0 /\ str[Len(str)] = "."
    THEN RStripDot(SubSeq(str, 1, Len(str) - 1))
    ELSE str

\* f"{owner}/{repo_name}"
RepoKey(owner, repo_name) == owner \o <<"/">> \o repo_name

\* what github_pattern.finditer yields: group(1) has no "/", group(2) is a
\* non-empty run without "/", "#", "?", ")" or whitespace
OwnerGroups == {<<"a">>, <<"b">>}
NameChars == {"x", "."}
NameGroups == UNION {[1..n -> NameChars] : n \in 1..MaxNameLen}
Matches == [owner : OwnerGroups, repo_name : NameGroups]
MatchLists == UNION {[1..n -> Matches] : n \in 0..MaxMatches}

\* one pass of the loop with the plausible slip of testing `seen` against the
\* unstripped name
ExtractOneSeenUnstripped(st, match) ==
    LET owner == match.owner
        repo_name == RStripDot(match.repo_name)
        repo_key == RepoKey(owner, repo_name)
        raw_key == RepoKey(owner, match.repo_name)
    IN  IF raw_key \in st.seen THEN st
        ELSE [repos |-> Append(st.repos,
                         [owner |-> owner, name |-> repo_name, full_name |-> repo_key,
                          url |-> <<"https://github.com/">> \o repo_key]),
              seen |-> st.seen \cup {raw_key}]

\* one pass of `for match in matches`, lines 133-152
ExtractOne(st, match) ==
    LET owner == match.owner
        repo_name == RStripDot(match.repo_name)
        repo_key == RepoKey(owner, repo_name)
    IN  IF repo_key \in st.seen THEN st
        ELSE [repos |-> Append(st.repos,
                         [owner |-> owner, name |-> repo_name, full_name |-> repo_key,
                          url |-> <<"https://github.com/">> \o repo_key]),
              seen |-> st.seen \cup {repo_key}]

RECURSIVE ExtractLoop(_, _, _)
ExtractLoop(st, matches, i) ==
    IF i > Len(matches) THEN st
    ELSE ExtractLoop(ExtractOne(st, matches[i]), matches, i + 1)

\* _extract_repos, given the pattern's matches in document order
ExtractRepos(matches) == ExtractLoop([repos |-> <<>>, seen |-> {}], matches, 1).repos

ScIdle == [pc |-> "idle", matches |-> <<>>, repos |-> <<>>]

ExtractReposApply ==
    /\ sc.pc = "call"
    /\ sc' = [sc EXCEPT !.pc = "done", !.repos = ExtractRepos(sc.matches)]
    /\ UNCHANGED <<storage_file, sv, mg, extVars, mn, auxVars>>

----------------------------------------------------------------------------
(* config.py and the data of skill_extractor.py                            *)

\* max_skills_per_repo: the dataclass default, and a small configured value
DefaultMaxSkillsPerRepo == 50
SmallMaxSkillsPerRepo == 1

\* bound: the marker files one clone holds
MaxFiles == 2
\* bound: the extract_skills calls of one run
MaxExtractions == 2
\* bound: the install_skills calls of one run
MaxInstalls == 1

Locations == {"local", "global"}

\* two repositories of one owner; names are token sequences so that
\* f"{owner}-{name}" is a concatenation
RepoOf(owner, name) ==
    [owner |-> owner, name |-> name, full_name |-> RepoKey(owner, name),
     url |-> <<"https://github.com/">> \o RepoKey(owner, name)]
RepoA == RepoOf(<<"o">>, <<"r">>)
RepoB == RepoOf(<<"o">>, <<"q">>)
Repos == {RepoA, RepoB}

\* folders holding a SKILL.md, as paths relative to the clone root
MarkerPaths ==
    { <<>>, <<"skills">>, <<"skills", "foo">>, <<"skills", "foo", "deep">>,
      <<"bar">>, <<"r">>, <<".git", "hooks">> }

NoDup(seq) == \A i, j \in DOMAIN seq : seq[i] = seq[j] => i = j

\* what one remote repository may hold
RemoteTrees == {t \in SUBSET MarkerPaths : Cardinality(t) <= MaxFiles}

\* the orders in which rglob may list the marker files of a clone
WalkOrders(paths) == {t \in [1..Cardinality(paths) -> paths] : NoDup(t)}

\* the random endings tempfile.mkdtemp may pick
TempSuffixes == {"t1", "t2"}

\* tempfile.mkdtemp(prefix=f"skill-scraper-{owner}-{name}-"), line 60
TempDirName(repo, suffix) ==
    <<"skill-scraper-">> \o repo.owner \o <<"-">> \o repo.name \o <<"-">> \o <<suffix>>

\* a directory: the entries present, by name
EmptyDir == [n \in {} |-> 0]
DirRemove(dir, name) == [n \in DOMAIN dir \ {name} |-> dir[n]]

\* the content of a unit folder: its SKILL.md, the origins of the other files
\* merged into it, and whether a copy into it ran to its end
SourceDoc(repo, path) == [repo |-> repo.full_name, path |-> path, footers |-> 0]
SourceUnit(repo, path) ==
    [doc |-> SourceDoc(repo, path), files |-> {<<repo.full_name, path>>}, complete |-> TRUE]
OldUnit ==
    [doc |-> [repo |-> <<"earlier">>, path |-> <<>>, footers |-> 0],
     files |-> {}, complete |-> TRUE]

\* --- _find_skill_files, lines 141-151 -------------------------------------
NotInGit(path) == ".git" \notin Range(path)

\* the filter with the plausible slip of dropping it
FindSkillFilesKeepGit(tree) == tree

FindSkillFiles(tree) == SelectSeq(tree, NotInGit)

\* the slice with the plausible slip of leaving the cap out
CappedNever(skill_files, max) == skill_files

\* skill_files[:max_skills_per_repo], line 75
Capped(skill_files, max) ==
    SubSeq(skill_files, 1, IF Len(skill_files) < max THEN Len(skill_files) ELSE max)

\* --- _determine_skill_name, lines 216-232 ---------------------------------
\* skill_file.parent.name: the last segment, and for the clone root the name
\* of the temporary directory itself
FolderName(path, temp_dir) ==
    IF path = <<>> THEN temp_dir ELSE <<path[Len(path)]>>

UnitName(owner, part) == owner \o <<"-">> \o part

\* the second rule with the plausible slip of taking the last segment
DetermineSkillNameLastSegment(folder_name, relative_path, source_repo) ==
    IF folder_name = <<".">> \/ folder_name = source_repo.name
    THEN UnitName(source_repo.owner, source_repo.name)
    ELSE UnitName(source_repo.owner, folder_name)

DetermineSkillName(folder_name, relative_path, source_repo) ==
    IF folder_name = <<".">> \/ folder_name = source_repo.name
    THEN UnitName(source_repo.owner, source_repo.name)
    ELSE IF Len(relative_path) > 0 /\ relative_path[1] = "skills" /\ Len(relative_path) > 1
         THEN UnitName(source_repo.owner, <<relative_path[2]>>)
         ELSE UnitName(source_repo.owner, folder_name)

\* --- the collision check, lines 173-181 -----------------------------------
\* self.skills_dir as main() builds the extractor (lines 20-26)
SkillsDir(config) == config.install_location

\* the check with the plausible slip of never skipping
ShouldSkipNever(config, final_exists) == FALSE

ShouldSkip(config, final_exists) ==
    final_exists /\ config.skip_existing /\ ~config.update_existing

\* --- staging one unit, lines 183-194 --------------------------------------
\* _copy_skill_files into a staging folder that may already hold a unit
CopySkillFiles(source, target) ==
    [doc |-> source.doc, files |-> target.files \cup source.files, complete |-> TRUE]

EmptyUnit == [doc |-> [repo |-> <<>>, path |-> <<>>, footers |-> 0],
              files |-> {}, complete |-> FALSE]

\* _enrich_skill_metadata: the footer names no "extracted-from:" token, and
\* the freshly copied document of these repositories has none
EnrichSkillMetadata(unit) == [unit EXCEPT !.doc.footers = @ + 1]

StagingHas(stg, name) == stg.exists /\ name \in DOMAIN stg.dirs

\* mkdir(parents=True, exist_ok=True), copy, enrich
StageUnit(stg, name, source) ==
    LET target == IF StagingHas(stg, name) THEN stg.dirs[name] ELSE EmptyUnit
    IN  [exists |-> TRUE,
         dirs |-> DictSet(stg.dirs, name, EnrichSkillMetadata(CopySkillFiles(source, target)))]

\* the copy raised after the staging folder was made
StagePartial(stg, name) ==
    LET target == IF StagingHas(stg, name) THEN stg.dirs[name] ELSE EmptyUnit
    IN  [exists |-> TRUE, dirs |-> DictSet(stg.dirs, name, [target EXCEPT !.complete = FALSE])]

ExtractedSkill(name, config, source_repo) ==
    [name |-> name, staging_path |-> name,
     final_path |-> <<SkillsDir(config), name>>,
     source_repo |-> source_repo.full_name]

----------------------------------------------------------------------------
(* skill_extractor.py: extract_skills                                      *)

ZeroResult ==
    [success |-> FALSE, extracted_count |-> 0, skipped_count |-> 0,
     failed_count |-> 0, skills |-> <<>>]

ExIdle ==
    [pc |-> "idle", repo |-> RepoOf(<<>>, <<>>), temp_dir |-> <<>>, clone |-> "none",
     skill_files |-> <<>>, i |-> 0, result |-> ZeroResult, processed |-> <<>>]

\* git clone: exit status 0, a non-zero status, the 60 s timeout, or
\* subprocess.run raising (lines 120-139)
CloneOutcomes == {"ok", "nonzero", "timeout", "raises"}

\* _clone_repo with the plausible slip of not testing the exit status
CloneRepoIgnoresStatus(outcome) == outcome \in {"ok", "nonzero"}

\* the value _clone_repo returns
CloneRepo(outcome) == outcome = "ok"

\* the finally block with the plausible slip of leaving the directory
FinallyCleanupForgotten(dirs, temp_dir) == dirs

\* lines 100-103: if temp_dir.exists(): shutil.rmtree(temp_dir)
FinallyCleanup(dirs, temp_dir) == dirs \ {temp_dir}

\* lines 46-60: the result is initialised and the temporary directory made
ExtractSkillsEnter(repo, suffix) ==
    /\ ex.pc = "idle"
    /\ TempDirName(repo, suffix) \notin tmpdirs
    /\ ex' = [ExIdle EXCEPT !.pc = "clone", !.repo = repo,
                            !.temp_dir = TempDirName(repo, suffix)]
    /\ tmpdirs' = tmpdirs \cup {TempDirName(repo, suffix)}

\* lines 63-65
ExtractClone ==
    /\ ex.pc = "clone"
    /\ \E outcome \in CloneOutcomes :
          ex' = [ex EXCEPT !.clone = outcome,
                           !.pc = IF CloneRepo(outcome) THEN "find" ELSE "finally"]
    /\ UNCHANGED <<storeVars, cfg, remote, diskVars, ins, caller, mn, auxVars>>

\* lines 67-73; a failure of the directory walk is caught at line 97
ExtractFind ==
    /\ ex.pc = "find"
    /\ \E walk_raises \in BOOLEAN, tree \in WalkOrders(remote[ex.repo.full_name]) :
          LET skill_files == FindSkillFiles(tree)
          IN  ex' = IF walk_raises THEN [ex EXCEPT !.pc = "finally"]
                    ELSE IF skill_files = <<>> THEN [ex EXCEPT !.pc = "finally"]
                    ELSE [ex EXCEPT !.pc = "loop", !.skill_files = skill_files, !.i = 1]
    /\ UNCHANGED <<storeVars, cfg, remote, diskVars, ins, caller, mn, auxVars>>

\* the marker file the loop of line 75 is about to process, and its unit name
CurrentPath == Capped(ex.skill_files, cfg.max_skills_per_repo)[ex.i]
CurrentName ==
    DetermineSkillName(FolderName(CurrentPath, ex.temp_dir), CurrentPath, ex.repo)
InLoop ==
    ex.pc = "loop" /\ ex.i <= Len(Capped(ex.skill_files, cfg.max_skills_per_repo))

\* what became of one marker file: its folder, the skill_name of line 171 and
\* the branch of lines 80-86 taken
Processed(path, skill_name, outcome) ==
    [path |-> path, skill_name |-> skill_name, outcome |-> outcome]

\* a pass with the plausible slip of making room for an update at once: the
\* installed unit of that name is removed during the extraction
ExtractSingleSkillUpdatesRoot ==
    /\ InLoop
    /\ installed' = [installed EXCEPT ![SkillsDir(cfg)] = DirRemove(@, CurrentName)]
    /\ staging' = StageUnit(staging, CurrentName, SourceUnit(ex.repo, CurrentPath))
    /\ ex' = [ex EXCEPT !.i = @ + 1, !.result.extracted_count = @ + 1,
                        !.result.skills = Append(@, ExtractedSkill(CurrentName, cfg, ex.repo)),
                        !.processed = Append(@, Processed(CurrentPath, CurrentName, "extracted"))]
    /\ UNCHANGED <<storeVars, cfg, remote, tmpdirs, ins, caller, mn, auxVars>>

\* one pass of the loop of lines 75-86: _extract_single_skill and the counting
ExtractSingleSkill ==
    /\ InLoop
    /\ LET skill_name == CurrentName
           final_exists == skill_name \in DOMAIN installed[SkillsDir(cfg)]
       IN  IF ShouldSkip(cfg, final_exists)
           THEN /\ ex' = [ex EXCEPT !.i = @ + 1, !.result.skipped_count = @ + 1,
                                    !.processed = Append(@, Processed(CurrentPath, skill_name, "skipped"))]
                /\ UNCHANGED staging
           ELSE \E io \in {"ok", "mkdir_raises", "copy_raises"} :
                   /\ staging' =
                        IF io = "ok"
                        THEN StageUnit(staging, skill_name, SourceUnit(ex.repo, CurrentPath))
                        ELSE IF io = "copy_raises" THEN StagePartial(staging, skill_name)
                        ELSE staging
                   /\ ex' = IF io = "ok"
                            THEN [ex EXCEPT !.i = @ + 1,
                                            !.result.extracted_count = @ + 1,
                                            !.result.skills =
                                                Append(@, ExtractedSkill(skill_name, cfg, ex.repo)),
                                            !.processed =
                                                Append(@, Processed(CurrentPath, skill_name, "extracted"))]
                            ELSE [ex EXCEPT !.i = @ + 1, !.result.failed_count = @ + 1,
                                            !.processed =
                                                Append(@, Processed(CurrentPath, skill_name, "failed"))]
    /\ UNCHANGED <<storeVars, cfg, remote, installed, tmpdirs, ins, caller, mn, auxVars>>

\* line 88
ExtractLoopEnd ==
    /\ ex.pc = "loop" /\ ~InLoop
    /\ ex' = [ex EXCEPT !.pc = "finally",
                        !.result.success = ex.result.extracted_count > 0]
    /\ UNCHANGED <<storeVars, cfg, remote, diskVars, ins, caller, mn, auxVars>>

\* lines 100-105
ExtractFinally ==
    /\ ex.pc = "finally"
    /\ tmpdirs' = FinallyCleanup(tmpdirs, ex.temp_dir)
    /\ ex' = [ex EXCEPT !.pc = "returned"]
    /\ UNCHANGED <<storeVars, cfg, remote, installed, staging, ins, caller, mn, auxVars>>

----------------------------------------------------------------------------
(* skill_extractor.py: install_skills and cleanup_staging                  *)

ZeroInstall ==
    [success |-> 0, failed |-> 0, errors |-> <<>>,
     installed_local |-> 0, installed_global |-> 0]

InsIdle == [pc |-> "idle", list |-> <<>>, i |-> 0, result |-> ZeroInstall, log |-> <<>>]

\* skill.get("install_location", self.config.install_location), line 341
InstallLocation(skill, config) ==
    IF "install_location" \in DOMAIN skill THEN skill["install_location"]
    ELSE config.install_location

\* lines 343-351, self.skills_dir being one of the two default roots
SkillsBaseDir(skill, config) ==
    IF InstallLocation(skill, config) = "local" THEN "local" ELSE "global"

\* a pass that installs as lines 363-375 do but leaves a failure uncounted
InstallOneFailureUncounted(st, skill, config, stg, io, left) ==
    IF ~StagingHas(stg, skill["staging_path"]) \/ io # "ok"
    THEN [st EXCEPT !.log = Append(@, IF StagingHas(stg, skill["staging_path"])
                                      THEN "raised" ELSE "missing")]
    ELSE [st EXCEPT !.roots[SkillsBaseDir(skill, config)] =
                        DictSet(DirRemove(@, skill["name"]), skill["name"],
                                stg.dirs[skill["name"]]),
                    !.result.success = @ + 1,
                    !.log = Append(@, "installed")]

\* one pass of the loop of lines 337-379 on unit `skill`; `io` is what the file
\* system does: "ok", "raises_early" (before anything is removed) or
\* "copy_raises" (copytree fails, leaving `left`: nothing or a partial copy)
InstallOne(st, skill, config, stg, io, left) ==
    LET base == SkillsBaseDir(skill, config)
        name == skill["name"]
    IN  IF ~StagingHas(stg, skill["staging_path"])
        THEN [st EXCEPT !.result.failed = @ + 1,
                        !.result.errors = Append(@, <<name, "Staging path not found">>),
                        !.log = Append(@, "missing")]
        ELSE IF io = "raises_early"
        THEN [st EXCEPT !.result.failed = @ + 1,
                        !.result.errors = Append(@, <<name, "raised">>),
                        !.log = Append(@, "raised")]
        ELSE IF io = "copy_raises"
        THEN [st EXCEPT !.roots[base] =
                            IF left THEN DictSet(@, name, [stg.dirs[name] EXCEPT !.complete = FALSE])
                            ELSE DirRemove(@, name),
                        !.result.failed = @ + 1,
                        !.result.errors = Append(@, <<name, "raised">>),
                        !.log = Append(@, "raised")]
        ELSE [st EXCEPT !.roots[base] = DictSet(DirRemove(@, name), name, stg.dirs[name]),
                        !.result.success = @ + 1,
                        !.result.installed_local =
                            IF InstallLocation(skill, config) = "local" THEN @ + 1 ELSE @,
                        !.result.installed_global =
                            IF InstallLocation(skill, config) = "local" THEN @ ELSE @ + 1,
                        !.log = Append(@, "installed")]

\* the sub-lists a review may select (ui.py:352-370), in list order
RECURSIVE Pick(_, _, _)
Pick(seq, idx, i) ==
    IF i > Len(seq) THEN <<>>
    ELSE (IF i \in idx THEN <<seq[i]>> ELSE <<>>) \o Pick(seq, idx, i + 1)

Selections(seq) == {Pick(seq, idx, 1) : idx \in (SUBSET DOMAIN seq) \ {{}}}

\* ui.py:364-367: the location chosen is written into every selected unit;
\* a caller that skips the review leaves the key out
WithLocation(list, loc) ==
    [i \in DOMAIN list |->
        IF loc = "unset" THEN list[i] ELSE DictSet(list[i], "install_location", loc)]

\* install_skills(skills_to_install) is entered, lines 329-335
InstallSkillsCall ==
    /\ ex.pc = "idle" /\ ins.pc = "idle"
    /\ caller.installs_todo > 0
    /\ \E sel \in Selections(caller.skills), loc \in Locations \cup {"unset"} :
          ins' = [InsIdle EXCEPT !.pc = "loop", !.list = WithLocation(sel, loc), !.i = 1]
    /\ caller' = [caller EXCEPT !.installs_todo = @ - 1]
    /\ UNCHANGED <<storeVars, cfg, remote, diskVars, ex, mn, auxVars>>

InstallStep ==
    /\ ins.pc = "loop" /\ ins.i <= Len(ins.list)
    /\ \E io \in {"ok", "raises_early", "copy_raises"}, left \in BOOLEAN :
          LET st == InstallOne([roots |-> installed, result |-> ins.result, log |-> ins.log],
                               ins.list[ins.i], cfg, staging, io, left)
          IN  /\ installed' = st.roots
              /\ ins' = [ins EXCEPT !.i = @ + 1, !.result = st.result, !.log = st.log]
    /\ UNCHANGED <<storeVars, cfg, remote, staging, tmpdirs, ex, caller, mn, auxVars>>

\* line 381
InstallLoopEnd ==
    /\ ins.pc = "loop" /\ ins.i > Len(ins.list)
    /\ ins' = [ins EXCEPT !.pc = "done"]
    /\ UNCHANGED <<storeVars, cfg, remote, diskVars, ex, caller, mn, auxVars>>

InstallReturn ==
    /\ ins.pc = "done"
    /\ ins' = InsIdle
    /\ UNCHANGED <<storeVars, cfg, remote, diskVars, ex, caller, mn, auxVars>>

\* cleanup_staging, lines 383-390
CleanupStaging ==
    /\ ex.pc = "idle" /\ ins.pc = "idle"
    /\ staging.exists
    /\ staging' = [exists |-> FALSE, dirs |-> EmptyDir]
    /\ UNCHANGED <<storeVars, cfg, remote, installed, tmpdirs, ex, ins, caller, mn, auxVars>>

----------------------------------------------------------------------------
(* A caller of the extractor: extractions, then a review and an install    *)

\* the units the caller holds, and the calls it still means to make
CallerPlan(extractions, installs) ==
    [skills |-> <<>>, extractions_todo |-> extractions, installs_todo |-> installs]
CallerIdle == CallerPlan(0, 0)

ExtractSkillsCall ==
    /\ ins.pc = "idle"
    /\ caller.extractions_todo > 0
    /\ \E repo \in Repos, suffix \in TempSuffixes : ExtractSkillsEnter(repo, suffix)
    /\ caller' = [caller EXCEPT !.extractions_todo = @ - 1]
    /\ UNCHANGED <<storeVars, cfg, remote, installed, staging, ins, mn, auxVars>>

\* the caller keeps the units of the result
ExtractSkillsReturn ==
    /\ ex.pc = "returned"
    /\ caller' = [caller EXCEPT !.skills = @ \o ex.result.skills]
    /\ ex' = ExIdle
    /\ UNCHANGED <<storeVars, cfg, remote, diskVars, ins, mn, auxVars>>

----------------------------------------------------------------------------
(* main.py: the workflow of main(), lines 53-236                           *)

\* the frame of main(); `extractions` keeps what line 192 returned for each
\* repository, which main itself only logs
MnIdle ==
    [pc |-> "idle", repos |-> <<>>, detection |-> <<>>, selected |-> <<>>, i |-> 0,
     successful |-> 0, failed |-> 0, total_extracted |-> 0,
     extractions |-> <<>>, summary |-> 0, error |-> "none",
     closes |-> [scraper |-> 0, detector |-> 0]]

MainStart == [MnIdle EXCEPT !.pc = "action"]

NoUrl == "None"
SeedUrl == "s1"

\* what scrape_awesome_repo can return for the seed (lines 83-87)
ScrapeResults == {<<>>, <<RepoB>>, <<RepoA, RepoB>>}

\* fetch_repo_details, scraper.py:157-186, on every record (lines 99-103)
FetchDetails(repos) == [i \in DOMAIN repos |-> DictSet(repos[i], "description", "d1")]

\* ExtractionConfig(mode=mode), config.py:11-45, with the answers of
\* ui.py:157-166 and main.py:134-135
ExtractionConfig(mode, confirm, location, update) ==
    [mode |-> mode, skip_existing |-> TRUE,
     update_existing |-> update,
     confirm_extraction |-> IF mode \in {"extract", "both"} THEN confirm ELSE TRUE,
     install_location |-> IF mode \in {"extract", "both"} THEN location ELSE "global",
     max_skills_per_repo |-> DefaultMaxSkillsPerRepo]

\* lines 67-71
MainExit ==
    /\ mn.pc = "action"
    /\ mn' = [mn EXCEPT !.pc = "finally"]
    /\ UNCHANGED <<storeVars, extVars, auxVars>>

\* lines 75-116: scrape, fetch details when asked, save to storage
MainScrape ==
    /\ mn.pc = "action"
    /\ \E github_url \in {NoUrl, SeedUrl}, found \in ScrapeResults,
          details \in BOOLEAN, confirm_merge \in BOOLEAN, ts \in Times :
          IF github_url = NoUrl \/ found = <<>>
          THEN /\ mn' = [mn EXCEPT !.pc = "finally"]
               /\ UNCHANGED storage_file
          ELSE LET fetched == IF details THEN FetchDetails(found) ELSE found
                   merge_repos == Exists(storage_file) /\ confirm_merge
                   repos == StampAll(fetched, ts, github_url)
               IN  /\ storage_file' = FileOf(ReposToSave(repos, merge_repos, storage_file))
                   /\ mn' = [mn EXCEPT !.pc = "configure", !.repos = repos]
    /\ UNCHANGED <<sv, mg, sc, extVars, auxVars>>

\* lines 118-130
MainLoad ==
    /\ mn.pc = "action"
    /\ mn' = IF ~Exists(storage_file) \/ LoadRepos(storage_file) = <<>>
             THEN [mn EXCEPT !.pc = "finally"]
             ELSE [mn EXCEPT !.pc = "configure", !.repos = LoadRepos(storage_file)]
    /\ UNCHANGED <<storeVars, extVars, auxVars>>

\* detection_results.get(full_name, {}).get('is_skill_repo', False), line 178
IsSkillRepo(detection, full_name) ==
    \E k \in DOMAIN detection :
        detection[k].full_name = full_name /\ detection[k].is_skill_repo

\* the answers detect_skills can give for a list (lines 148-152), one entry
\* per record
Detections(repos) ==
    {[k \in DOMAIN repos |-> [full_name |-> repos[k]["full_name"], is_skill_repo |-> b[k]]] :
        b \in [DOMAIN repos -> BOOLEAN]}

\* lines 132-156: the mode is chosen, the extractor is built
\* (skill_extractor.py:17-33 makes the staging directory), detection runs
MainConfigure ==
    /\ mn.pc = "configure"
    /\ \E mode \in {"metadata", "extract", "both"}, confirm \in BOOLEAN,
          location \in Locations, update \in BOOLEAN :
          /\ cfg' = ExtractionConfig(mode, confirm, location, update)
          /\ \E detection \in IF mode \in {"extract", "both"}
                              THEN Detections(mn.repos) ELSE {<<>>} :
                mn' = [mn EXCEPT !.pc = "select", !.detection = detection]
    /\ staging' = [exists |-> TRUE, dirs |-> EmptyDir]
    /\ UNCHANGED <<storeVars, remote, installed, tmpdirs, ex, ins, caller, auxVars>>

\* lines 158-170
MainSelectRepos ==
    /\ mn.pc = "select"
    /\ \E selected \in Selections(mn.repos) \cup {<<>>} :
          mn' = IF selected = <<>> THEN [mn EXCEPT !.pc = "finally"]
                ELSE [mn EXCEPT !.pc = "loop", !.selected = selected, !.i = 1]
    /\ UNCHANGED <<storeVars, extVars, auxVars>>

\* lines 180-188
ShouldExtractAnswers(config, is_skill_repo) ==
    IF config.mode = "extract" \/ (config.mode = "both" /\ is_skill_repo)
    THEN IF config.confirm_extraction /\ is_skill_repo THEN BOOLEAN
         ELSE {is_skill_repo}
    ELSE {FALSE}

MainInLoop == mn.pc = "loop" /\ mn.i <= Len(mn.selected)

\* lines 175-195: one repository of the batch; extract_skills is entered
\* when should_extract holds
MainLoopStep ==
    /\ MainInLoop
    /\ LET repo == mn.selected[mn.i]
       IN  \E should_extract \in
                 ShouldExtractAnswers(cfg, IsSkillRepo(mn.detection, repo["full_name"])) :
              IF should_extract
              THEN /\ \E suffix \in TempSuffixes : ExtractSkillsEnter(repo, suffix)
                   /\ mn' = [mn EXCEPT !.pc = "extracting"]
              ELSE /\ mn' = [mn EXCEPT !.pc = "generate"]
                   /\ UNCHANGED <<ex, tmpdirs>>
    /\ UNCHANGED <<storeVars, cfg, remote, installed, staging, ins, caller, auxVars>>

\* lines 197-204: extract_skills has returned
MainAfterExtract ==
    /\ mn.pc = "extracting" /\ ex.pc = "returned"
    /\ mn' = [mn EXCEPT !.pc = "generate",
                        !.total_extracted =
                            IF ex.result.success THEN @ + ex.result.extracted_count ELSE @,
                        !.extractions =
                            Append(@, [full_name |-> ex.repo["full_name"],
                                       clone |-> ex.clone, result |-> ex.result])]
    /\ ex' = ExIdle
    /\ UNCHANGED <<storeVars, cfg, remote, diskVars, ins, caller, auxVars>>

\* skill_generator.py:18 declares generate_skill(self, repo): the call of
\* main.py:207 passes update= and raises TypeError
GenerateSkillCallRaises == TRUE

\* lines 206-212; an exception leaves the loop for the handler of line 230
MainGenerate ==
    /\ mn.pc = "generate"
    /\ mn' = IF cfg.mode \in {"metadata", "both"} /\ GenerateSkillCallRaises
             THEN [mn EXCEPT !.pc = "finally", !.error = "TypeError"]
             ELSE [mn EXCEPT !.pc = "loop", !.i = @ + 1]
    /\ UNCHANGED <<storeVars, extVars, auxVars>>

\* lines 214-224: the batch is over, the summary is shown
MainShowSummary ==
    /\ mn.pc = "loop" /\ mn.i > Len(mn.selected)
    /\ mn' = [mn EXCEPT !.pc = "finally", !.summary = @ + 1]
    /\ UNCHANGED <<storeVars, extVars, auxVars>>

\* lines 226-232: KeyboardInterrupt, or another exception, raised at a prompt
\* or in a call of the workflow; during the clone of extract_skills only the
\* interrupt gets out, through the finally of skill_extractor.py:100-103
MainRaise ==
    /\ \/ mn.pc \in {"action", "configure", "select", "loop", "generate"}
       \/ mn.pc = "extracting" /\ ex.pc = "clone"
    /\ \E e \in IF mn.pc = "extracting" THEN {"KeyboardInterrupt"}
                ELSE {"KeyboardInterrupt", "Exception"} :
          mn' = [mn EXCEPT !.pc = "finally", !.error = e]
    /\ IF mn.pc = "extracting"
       THEN /\ ex' = ExIdle
            /\ tmpdirs' = FinallyCleanup(tmpdirs, ex.temp_dir)
       ELSE UNCHANGED <<ex, tmpdirs>>
    /\ UNCHANGED <<storeVars, cfg, remote, installed, staging, ins, caller, auxVars>>

\* the finally block with the plausible slip of closing the scraper only
MainFinallyScraperOnly ==
    /\ mn.pc = "finally"
    /\ mn' = [mn EXCEPT !.pc = "done", !.closes.scraper = @ + 1]
    /\ UNCHANGED <<storeVars, extVars, auxVars>>

\* lines 234-236
MainFinally ==
    /\ mn.pc = "finally"
    /\ mn' = [mn EXCEPT !.pc = "done", !.closes.scraper = @ + 1, !.closes.detector = @ + 1]
    /\ UNCHANGED <<storeVars, extVars, auxVars>>

----------------------------------------------------------------------------
(* Documents: a SKILL.md as the lines content.split('\n') yields           *)

\* a string: what it says and how many characters it has
Str(s, len) == [s |-> s, len |-> len]
ShortLen == 10

Dash == [kind |-> "dash"]                              \* "---" and blanks
Blank == [kind |-> "blank"]                            \* empty or blanks only
KV(key, value) == [kind |-> "kv", key |-> key, value |-> value]   \* "key: value"
H1(text) == [kind |-> "h1", text |-> text]             \* "# text"
Hn(text) == [kind |-> "hn", text |-> text]             \* "## text", "#text"
Text(text) == [kind |-> "text", text |-> text]         \* any other line

----------------------------------------------------------------------------
(* skill_generator.py                                                      *)

\* bound: the generate_skill calls of one run
MaxGenerations == 3

NoDescription == Str("No description available", 24)

\* repo.get('description', 'No description available'), line 56
DescriptionOf(repo) ==
    IF "description" \in DOMAIN repo THEN Str(repo["description"], ShortLen)
    ELSE NoDescription

\* the content with the plausible slip of naming the unit as its folder
CreateSkillContentFolderName(repo) ==
    << Dash, KV("name", Str(repo["owner"] \o <<"-">> \o repo["name"], ShortLen)),
       KV("description", DescriptionOf(repo)), Dash, Blank >>

\* _create_skill_content, lines 53-78
CreateSkillContent(repo) ==
    LET skill_name == Str(repo["owner"] \o <<"/">> \o repo["name"], ShortLen)
        description == DescriptionOf(repo)
    IN  << Dash, KV("name", skill_name), KV("description", description), Dash,
           Blank, H1(skill_name),
           Blank, KV("GitHub Repository", Str(repo["url"], ShortLen)),
           Blank, Hn("Description"),
           Blank, Text(description),
           Blank, Hn("Usage"),
           Blank, Text(Str(<<"This skill provides context about">>, ShortLen)),
           Blank, KV("Visit the repository for more information", Str(repo["url"], ShortLen)),
           Blank >>

\* a folder just made by mkdir, and a unit holding one document
NewFolder == [doc |-> [lines |-> <<>>], files |-> {}, complete |-> FALSE]
GeneratedUnit(repo) ==
    [doc |-> [lines |-> CreateSkillContent(repo)], files |-> {}, complete |-> TRUE]

\* f"{repo['owner']}-{repo['name']}", line 28
GeneratedName(repo) == UnitName(repo["owner"], repo["name"])

\* SkillGenerator() writes under ~/.claude/skills, line 13
GeneratorRoot == "global"

GenIdle == [pc |-> "idle", repo |-> <<>>, result |-> FALSE, io |-> "none",
            before |-> <<>>, log |-> <<>>]

\* generate_skill(repo) is entered, lines 28-29
GenerateSkillEnter(repo) ==
    /\ gen.pc = "idle"
    /\ gen' = [gen EXCEPT !.pc = "check", !.repo = repo, !.result = FALSE,
                          !.io = "none", !.before = installed]

\* the handler with the plausible slip of leaving the new folder behind
GenerateCleanupForgotten(dir, name) == dir

\* lines 49-50
GenerateCleanup(dir, name) == DirRemove(dir, name)

\* lines 31-35: an existing folder ends the call, otherwise it is made
GenerateSkillCheck ==
    /\ gen.pc = "check"
    /\ IF GeneratedName(gen.repo) \in DOMAIN installed[GeneratorRoot]
       THEN /\ gen' = [gen EXCEPT !.pc = "done", !.result = FALSE]
            /\ UNCHANGED installed
       ELSE /\ gen' = [gen EXCEPT !.pc = "write"]
            /\ installed' = [installed EXCEPT ![GeneratorRoot] =
                                DictSet(@, GeneratedName(gen.repo), NewFolder)]
    /\ UNCHANGED <<storeVars, cfg, remote, staging, tmpdirs, ex, ins, caller, mn, pm, dt, cp, en, sa>>

\* lines 38-51: the document is written, or the write raises and the folder
\* is removed again
GenerateSkillWrite ==
    /\ gen.pc = "write"
    /\ \E io \in {"ok", "write_raises"} :
          IF io = "ok"
          THEN /\ installed' = [installed EXCEPT ![GeneratorRoot] =
                                   DictSet(@, GeneratedName(gen.repo), GeneratedUnit(gen.repo))]
               /\ gen' = [gen EXCEPT !.pc = "done", !.result = TRUE, !.io = io]
          ELSE /\ installed' = [installed EXCEPT ![GeneratorRoot] =
                                   GenerateCleanup(@, GeneratedName(gen.repo))]
               /\ gen' = [gen EXCEPT !.pc = "done", !.result = FALSE, !.io = io]
    /\ UNCHANGED <<storeVars, cfg, remote, staging, tmpdirs, ex, ins, caller, mn, pm, dt, cp, en, sa>>

\* the call returns; the caller notes what it got
GenerateSkillReturn ==
    /\ gen.pc = "done"
    /\ gen' = [gen EXCEPT !.pc = "idle",
                          !.log = Append(@, [repo |-> gen.repo, result |-> gen.result,
                                             io |-> gen.io])]
    /\ UNCHANGED <<storeVars, extVars, mn, pm, dt, cp, en, sa>>

\* the caller of test_integration.py:13-53: generate_skill on each record
\* that _extract_repos returned, in order
GenerateForNextRecord ==
    /\ sc.pc = "done"
    /\ Len(gen.log) < Len(sc.repos)
    /\ GenerateSkillEnter(sc.repos[Len(gen.log) + 1])
    /\ UNCHANGED <<storeVars, extVars, mn, pm, dt, cp, en, sa>>

\* the records a caller may pass: with and without a description
GeneratorRepos == Repos \cup {DictSet(RepoA, "description", "d1")}

\* a direct call of generate_skill, as the tests make it
GenerateSkillCall ==
    /\ Len(gen.log) < MaxGenerations
    /\ \E repo \in GeneratorRepos : GenerateSkillEnter(repo)
    /\ UNCHANGED <<storeVars, extVars, mn, pm, dt, cp, en, sa>>

----------------------------------------------------------------------------
(* skill_extractor.py: _parse_skill_metadata, lines 279-317                *)

\* bound: the lines of a document
MaxLines == 5

\* next_line[:200], line 311
DescriptionLimit == 200

EmptyStr == Str("", 0)

\* str.lower() on the keys the documents use
Lower(key) == IF key = "Name" THEN "name" ELSE key

\* the stripped text of a line
LineStr(line) ==
    CASE line.kind = "dash" -> Str("---", 3)
      [] line.kind = "blank" -> EmptyStr
      [] line.kind = "kv" -> Str(<<line.key, ":", line.value.s>>, line.value.len + 2)
      [] OTHER -> line.text

\* str[:limit] with the plausible slip of not cutting
PrefixUncut(str, limit) == str

\* str[:limit]
Prefix(str, limit) == IF str.len <= limit THEN str ELSE [str EXCEPT !.len = limit]

\* the blank lines in a row from index i on
RECURSIVE BlankRun(_, _)
BlankRun(lines, i) ==
    IF i <= Len(lines) /\ lines[i] = Blank THEN 1 + BlankRun(lines, i + 1) ELSE 0

\* the first "---" line at or after index `from` that a newline follows; 0
\* when there is none
RECURSIVE ClosingDash(_, _)
ClosingDash(lines, from) ==
    IF from >= Len(lines) THEN 0
    ELSE IF lines[from] = Dash THEN from
    ELSE ClosingDash(lines, from + 1)

NoFrontmatter == [matched |-> FALSE, lines |-> <<>>]

\* re.match(r'^---\s*\n(.*?)\n---\s*\n', content, re.DOTALL), line 294: the
\* opening takes the blank lines after it (greedy), the block ends at the
\* first closing line after one more newline (lazy)
FrontmatterMatch(lines) ==
    IF Len(lines) = 0 \/ lines[1] # Dash THEN NoFrontmatter
    ELSE LET blanks == BlankRun(lines, 2)
             closing == ClosingDash(lines, 3 + blanks)
         IN  IF closing # 0
             THEN [matched |-> TRUE, lines |-> SubSeq(lines, 2 + blanks, closing - 1)]
             ELSE IF blanks >= 1 /\ ClosingDash(lines, 2 + blanks) = 2 + blanks
             THEN [matched |-> TRUE, lines |-> <<>>]
             ELSE NoFrontmatter

\* lines 297-303 with the plausible slip of keeping every key of the block
ReadFrontmatterLineAnyKey(metadata, line) ==
    IF line.kind = "kv" THEN DictSet(metadata, Lower(line.key), line.value) ELSE metadata

\* lines 297-303, one line of the block
ReadFrontmatterLine(metadata, line) ==
    IF line.kind = "kv" /\ Lower(line.key) \in {"name", "description"}
    THEN DictSet(metadata, Lower(line.key), line.value)
    ELSE metadata

RECURSIVE ReadFrontmatter(_, _, _)
ReadFrontmatter(metadata, block, i) ==
    IF i > Len(block) THEN metadata
    ELSE ReadFrontmatter(ReadFrontmatterLine(metadata, block[i]), block, i + 1)

\* lines 307-312: the first "# " line whose next line, stripped, is not empty
\* and does not start with "#"; 0 when there is none
RECURSIVE DescribedHeading(_, _)
DescribedHeading(lines, i) ==
    IF i + 1 > Len(lines) THEN 0
    ELSE IF lines[i].kind = "h1" /\ lines[i + 1].kind \notin {"blank", "h1", "hn"} THEN i
    ELSE DescribedHeading(lines, i + 1)

\* the test of line 305
NeedsFallback(description) == description.len = 0 \/ description = NoDescription

\* lines 305-312
FallbackDescription(metadata, lines) ==
    IF NeedsFallback(metadata["description"]) /\ DescribedHeading(lines, 1) # 0
    THEN DictSet(metadata, "description",
                 Prefix(LineStr(lines[DescribedHeading(lines, 1) + 1]), DescriptionLimit))
    ELSE metadata

DefaultMetadata == [name |-> EmptyStr, description |-> NoDescription, content |-> <<>>]

\* _parse_skill_metadata on a file that exists and can be read
ParseSkillMetadata(lines) ==
    LET m0 == DictSet(DefaultMetadata, "content", lines)
        m1 == ReadFrontmatter(m0, FrontmatterMatch(lines).lines, 1)
    IN  FallbackDescription(m1, lines)

\* the lines documents are made of: a long description, the placeholder
\* itself as a value, an empty value, a key of another name
LongLen == 300
LineAlphabet ==
    { Dash, Blank, H1(Str("Title", ShortLen)), Hn(Str("Sub", ShortLen)),
      Text(Str("body", DescriptionLimit + 1)),
      KV("Name", Str("Foo", ShortLen)),
      KV("description", Str("Bar", LongLen)),
      KV("description", EmptyStr),
      KV("description", NoDescription),
      KV("version", Str("1", 1)) }

Documents == UNION {[1..n -> LineAlphabet] : n \in 1..MaxLines}

NoDoc == [exists |-> FALSE, lines |-> <<>>]

\* dict.get(key, default)
DictGet(dict, key, default) == IF key \in DOMAIN dict THEN dict[key] ELSE default

\* the unit name _determine_skill_name gave, or the staged folder's name
DerivedName == Str("o-foo", 5)

\* lines 201-209 and 413-420: the entry built from the parsed metadata
SkillEntry(unit_name, metadata) ==
    [name |-> unit_name,
     description |-> DictGet(metadata, "description", NoDescription),
     skill_name |-> DictGet(metadata, "name", unit_name),
     metadata |-> metadata]

PmIdle == [pc |-> "idle", file |-> NoDoc, io |-> "none", result |-> DefaultMetadata,
           entry |-> SkillEntry(EmptyStr, DefaultMetadata)]

\* _parse_skill_metadata(skill_file): a missing file (line 287) and a failing
\* read (line 314) give the defaults
ParseSkillMetadataApply ==
    /\ pm.pc = "call"
    /\ \E io \in {"ok", "read_raises"} :
          pm' = [pm EXCEPT !.pc = "done", !.io = io,
                           !.result = IF pm.file.exists /\ io = "ok"
                                      THEN ParseSkillMetadata(pm.file.lines)
                                      ELSE DefaultMetadata]
    /\ UNCHANGED <<storeVars, extVars, mn, gen, dt, cp, en, sa>>

\* what _extract_single_skill and get_staged_skills do with the metadata of
\* a SKILL.md that is there
SkillEntryBuild ==
    /\ pm.pc = "done" /\ pm.file.exists
    /\ pm' = [pm EXCEPT !.pc = "entry", !.entry = SkillEntry(DerivedName, pm.result)]
    /\ UNCHANGED <<storeVars, extVars, mn, gen, dt, cp, en, sa>>

----------------------------------------------------------------------------
(* skill_detector.py                                                       *)

\* bound: the SKILL.md files, and the mentions of skill.md, that are counted
MaxCount == 2

\* skill_keywords, lines 80-83, in list order
SkillKeywords ==
    << "claude skill", "claude code skill", "skill.md",
       "skills folder", "skills directory", "claude agent skill" >>

\* what the README request gives: an HTTP error, or a text holding some of
\* the keywords and, exactly when it holds "skill.md", some mentions of it
Readmes ==
    {[ok |-> FALSE, keywords |-> {}, mentions |-> 0]} \cup
    {[ok |-> TRUE, keywords |-> ks, mentions |-> m] :
        ks \in SUBSET Range(SkillKeywords), m \in 0..MaxCount} 

ReadmeConsistent(readme) ==
    readme.ok => (("skill.md" \in readme.keywords) <=> (readme.mentions > 0))

\* a path of the listing: its segments, each a sequence of name parts
RootSkillMd == << <<"SKILL.md">> >>
FooSkillMd == << <<"skills">>, <<"foo">>, <<"SKILL.md">> >>
MySkillMd == << <<"docs">>, <<"MY_", "SKILL.md">> >>
ReadmeMd == << <<"README.md">> >>
SkillsEntry == << <<"skills">> >>
ListedPaths == {RootSkillMd, FooSkillMd, MySkillMd, ReadmeMd, SkillsEntry}

\* what the tree request gives: a listing ("ok", at most MaxCount items
\* here), status 403, another HTTP or transport error, a body that is not
\* JSON, a JSON object without "tree", or items without "path"
TreeReplies == {"ok", "rate_limited", "http_error", "bad_json", "no_tree", "bad_items"}
Trees ==
    {[reply |-> r, paths |-> <<>>] : r \in TreeReplies \ {"ok"}} \cup
    {[reply |-> "ok", paths |-> t] :
        t \in {q \in UNION {[1..n -> ListedPaths] : n \in 0..MaxCount} : NoDup(q)}}

\* the exception each request outcome raises inside the try block
RaisedByReadme(readme) == IF readme.ok THEN "none" ELSE "HTTPError"
RaisedByTree(tree) ==
    IF tree.reply = "http_error" THEN "HTTPError"
    ELSE IF tree.reply = "bad_json" THEN "ValueError"
    ELSE IF tree.reply = "bad_items" THEN "KeyError" ELSE "none"

\* the except clauses of line 101, and of lines 153-156 with the plausible
\* slip of leaving the second clause out
ReadmeHandlers == {"HTTPError"}
TreeHandlersHttpOnly == {"HTTPError"}
TreeHandlers == {"HTTPError", "Exception"}

\* whether an exception gets past the handlers of a try block
Escapes(exc, handlers) == exc # "none" /\ exc \notin handlers /\ "Exception" \notin handlers

RECURSIVE KeywordIndicators(_, _)
KeywordIndicators(readme, i) ==
    IF i > Len(SkillKeywords) THEN <<>>
    ELSE (IF SkillKeywords[i] \in readme.keywords
          THEN <<[type |-> "readme_keyword", skill_count |-> 1]>> ELSE <<>>)
         \o KeywordIndicators(readme, i + 1)

\* _check_readme, lines 65-104
CheckReadme(readme) ==
    IF ~readme.ok THEN <<>>
    ELSE KeywordIndicators(readme, 1) \o
         (IF readme.mentions > 0
          THEN <<[type |-> "readme_skill_md_mentions", skill_count |-> readme.mentions]>>
          ELSE <<>>)

\* item["path"].endswith("SKILL.md"), line 130
EndsWithSkillMd(path) ==
    LET last == path[Len(path)] IN last[Len(last)] = "SKILL.md"

\* item["path"].startswith("skills/") or item["path"] == "skills", line 142
UnderSkills(path) == path[1] = <<"skills">>

\* _check_repo_tree, lines 106-158
CheckRepoTree(tree) ==
    IF tree.reply # "ok" THEN <<>>
    ELSE LET skill_md_files == SelectSeq(tree.paths, EndsWithSkillMd)
         IN  (IF skill_md_files # <<>>
              THEN <<[type |-> "repo_skill_md_files", skill_count |-> Len(skill_md_files),
                      paths |-> skill_md_files]>>
              ELSE <<>>) \o
             (IF \E i \in DOMAIN tree.paths : UnderSkills(tree.paths[i])
              THEN <<[type |-> "repo_skills_folder", skill_count |-> 5]>> ELSE <<>>)

\* line 49 in tenths, with the plausible slip of leaving out the cap
ConfidenceUncapped(n) == 3 * n

\* min(len(indicators) * 0.3, 1.0), line 49, in tenths
Confidence(n) == IF 3 * n < 10 THEN 3 * n ELSE 10

RECURSIVE SumSkillCount(_, _)
SumSkillCount(indicators, i) ==
    IF i > Len(indicators) THEN 0
    ELSE indicators[i].skill_count + SumSkillCount(indicators, i + 1)

\* detect_skills, lines 19-63
DetectSkills(readme, tree) ==
    LET indicators == CheckReadme(readme) \o CheckRepoTree(tree)
    IN  [is_skill_repo |-> Len(indicators) > 0,
         skill_count |-> SumSkillCount(indicators, 1),
         structure |-> "None",
         confidence |-> Confidence(Len(indicators)),
         indicators |-> indicators]

DtIdle == [pc |-> "idle", readme |-> [ok |-> FALSE, keywords |-> {}, mentions |-> 0],
           tree |-> [reply |-> "http_error", paths |-> <<>>],
           result |-> <<>>]

\* one call of detect_skills: it returns its record unless an exception of
\* one of the two steps gets past that step's handlers
DetectSkillsApply ==
    /\ dt.pc = "call"
    /\ dt' = IF \/ Escapes(RaisedByReadme(dt.readme), ReadmeHandlers)
                \/ Escapes(RaisedByTree(dt.tree), TreeHandlers)
             THEN [dt EXCEPT !.pc = "raised"]
             ELSE [dt EXCEPT !.pc = "done", !.result = DetectSkills(dt.readme, dt.tree)]
    /\ UNCHANGED <<storeVars, extVars, mn, gen, pm, cp, en, sa>>

----------------------------------------------------------------------------
(* skill_extractor.py: _copy_skill_files, lines 234-248                    *)

\* a file system entry: a plain file with its content, or a directory with
\* its entries by name; a name is a sequence of characters and words
File(content) == [kind |-> "file", content |-> content, entries |-> EmptyDir]
Folder(entries) == [kind |-> "dir", content |-> "", entries |-> entries]
Absent == [kind |-> "absent", content |-> "", entries |-> EmptyDir]
IsDir(entry) == entry.kind = "dir"

SkillMd == <<"SKILL.md">>
Hidden == <<".", "hidden">>
PyCache == <<"__pycache__">>
Resources == <<"resources">>
DataJson == <<"data.json">>
OldTxt == <<"old.txt">>

\* item.name.startswith('.'), line 237
StartsWithDot(name) == name[1] = "."

\* the two tests of lines 237-241
SkippedItem(name) == StartsWithDot(name) \/ name = PyCache

\* the outcome of a copy: whether it went through, and the directory after it
Copied(ok, dir) == [ok |-> ok, dir |-> dir]

\* shutil.copy2(file, dir / name): an existing file is overwritten, an
\* existing directory of that name takes the file under the same name inside
\* it, and fails when it holds a directory of that name
Copy2(file, dir, name) ==
    IF name \notin DOMAIN dir \/ ~IsDir(dir[name])
    THEN Copied(TRUE, DictSet(dir, name, file))
    ELSE LET inner == dir[name].entries
         IN  IF name \in DOMAIN inner /\ IsDir(inner[name])
             THEN Copied(FALSE, dir)
             ELSE Copied(TRUE, DictSet(dir, name, Folder(DictSet(inner, name, file))))

\* shutil.copytree(src, dir / name, dirs_exist_ok=True): makedirs fails on a
\* plain file of that name; otherwise every entry of src is copied, nothing
\* is ignored, an error at one entry is kept and raised after the others
RECURSIVE CopyTree(_, _, _), CopyEntries(_, _, _)
CopyEntries(entries, names, acc) ==
    IF names = {} THEN acc
    ELSE LET n == CHOOSE x \in names : TRUE
             r == IF IsDir(entries[n]) THEN CopyTree(entries[n], acc.dir, n)
                  ELSE Copy2(entries[n], acc.dir, n)
         IN  CopyEntries(entries, names \ {n}, Copied(acc.ok /\ r.ok, r.dir))

CopyTree(src, dir, name) ==
    IF name \in DOMAIN dir /\ ~IsDir(dir[name])
    THEN Copied(FALSE, dir)
    ELSE LET old == IF name \in DOMAIN dir THEN dir[name].entries ELSE EmptyDir
             r == CopyEntries(src.entries, DOMAIN src.entries, Copied(TRUE, old))
         IN  Copied(r.ok, DictSet(dir, name, Folder(r.dir)))

CpIdle == [pc |-> "idle", source |-> EmptyDir, target |-> EmptyDir,
           before |-> EmptyDir, todo |-> {}]

\* one pass of the loop of line 236: iterdir lists the items in any order,
\* and an exception ends the call with the items copied so far in place
CopyItem ==
    /\ cp.pc = "loop" /\ cp.todo # {}
    /\ \E n \in cp.todo :
          LET item == cp.source[n]
              r == IF SkippedItem(n) THEN Copied(TRUE, cp.target)
                   ELSE IF IsDir(item) THEN CopyTree(item, cp.target, n)
                   ELSE Copy2(item, cp.target, n)
          IN  cp' = [cp EXCEPT !.target = r.dir, !.todo = @ \ {n},
                               !.pc = IF r.ok THEN "loop" ELSE "raised"]
    /\ UNCHANGED <<storeVars, extVars, mn, gen, pm, dt, en, sa>>

CopySkillFilesReturn ==
    /\ cp.pc = "loop" /\ cp.todo = {}
    /\ cp' = [cp EXCEPT !.pc = "done"]
    /\ UNCHANGED <<storeVars, extVars, mn, gen, pm, dt, en, sa>>

\* the subdirectories a unit folder may hold: a data file, a dotfile and a
\* cache directory, each present or not
InnerNames == {DataJson, Hidden, PyCache}
InnerDirs ==
    {[n \in ns |-> IF n = PyCache THEN Folder(EmptyDir) ELSE File("new")] :
        ns \in SUBSET InnerNames}

\* the unit folders copied: SKILL.md, and maybe a dotfile, a cache directory
\* and an entry named resources (a file or a subdirectory)
TopNames == {SkillMd, Hidden, PyCache, Resources}
UnitFolder(hidden, cache, resources) ==
    LET all == [n \in TopNames |->
                   IF n = SkillMd THEN File("new")
                   ELSE IF n = Hidden THEN hidden
                   ELSE IF n = PyCache THEN cache ELSE resources]
    IN  [n \in {m \in TopNames : all[m] # Absent} |-> all[n]]
CopySources ==
    {UnitFolder(h, c, r) :
        h \in {Absent, File("new")},
        c \in {Absent, Folder(EmptyDir), Folder([n \in {DataJson} |-> File("new")])},
        r \in {Absent, File("new")} \cup {Folder(d) : d \in InnerDirs}}

\* the staging folder after mkdir(exist_ok=True): new, or holding the copy of
\* an earlier unit of the same name
StagedBefore(resources) ==
    [n \in {SkillMd} \cup (IF resources = Absent THEN {} ELSE {Resources}) |->
        IF n = SkillMd THEN File("old") ELSE resources]
CopyTargets ==
    {EmptyDir} \cup
    {StagedBefore(r) :
        r \in {Absent, File("old"),
               Folder([n \in {DataJson} |-> File("old")]),
               Folder([n \in {OldTxt} |-> File("old")])}}

----------------------------------------------------------------------------
(* skill_extractor.py: _enrich_skill_metadata, lines 250-277                *)

\* bound: the enrichments applied to one staged document
MaxEnrichments == 3

\* text as a sequence of words and punctuation marks
LowerToken(t) ==
    IF t = "Extracted" THEN "extracted"
    ELSE IF t = "From" THEN "from"
    ELSE IF t = "Detection" THEN "detection"
    ELSE IF t = "Installed" THEN "installed" ELSE t

\* content.lower()
LowerText(text) == [i \in DOMAIN text |-> LowerToken(text[i])]

\* sub in text
Contains(text, sub) ==
    \E i \in 0..(Len(text) - Len(sub)) : SubSeq(text, i + 1, i + Len(sub)) = sub

\* the token tested at line 264
ExtractedFromToken == <<"extracted", "-", "from", ":">>

\* f"{confidence:.0%}", confidence in tenths
Percent(tenths) ==
    IF tenths = 0 THEN "0%" ELSE IF tenths = 10 THEN "100%" ELSE "90%"

\* metadata_footer, lines 265-271
MetadataFooter(source_repo, skill_name, confidence) ==
    <<"\n", "\n", "---", "\n">> \o
    <<"**", "Extracted", " ", "from", "**", ":", " ", "[">> \o source_repo.full_name \o
    <<"]", "(">> \o source_repo.url \o <<")", "\n">> \o
    <<"**", "Detection", " ", "confidence", "**", ":", " ", Percent(confidence), "\n">> \o
    <<"**", "Installed", " ", "as", "**", ":", " ">> \o skill_name \o <<"\n">>

\* line 264
NeedsFooter(content) == ~Contains(LowerText(content), ExtractedFromToken)

\* lines 262-273 on the content read
EnrichContent(content, footer) ==
    IF NeedsFooter(content) THEN content \o footer ELSE content

EnIdle == [pc |-> "idle", exists |-> FALSE, content |-> <<>>, repo |-> RepoOf(<<>>, <<>>),
           confidence |-> 0, log |-> <<>>]

\* one call of _enrich_skill_metadata on the staged SKILL.md; reading or
\* writing may raise, which line 276 catches
EnrichSkillMetadataApply ==
    /\ en.pc = "staged" /\ Len(en.log) < MaxEnrichments
    /\ \E io \in {"ok", "read_raises", "write_raises"} :
          LET footer == MetadataFooter(en.repo, UnitName(en.repo.owner, en.repo.name),
                                       en.confidence)
              content == IF en.exists /\ io = "ok"
                         THEN EnrichContent(en.content, footer) ELSE en.content
          IN  en' = [en EXCEPT !.content = content,
                               !.log = Append(@, [io |-> io, content |-> content])]
    /\ UNCHANGED <<storeVars, extVars, mn, gen, pm, dt, cp, sa>>

\* the SKILL.md files enriched: plain ones, one naming the token in capitals,
\* and one that an earlier enrichment of this tool has been through
PlainDocuments ==
    { <<"#", " ", "Title", "\n", "text", "\n">>,
      <<"---", "\n", "name", ":", " ", "Foo", "\n", "---", "\n">>,
      <<"Extracted", "-", "From", ":", " ", "elsewhere", "\n">> }
EnrichedDocuments ==
    PlainDocuments \cup
    {EnrichContent(doc, MetadataFooter(RepoA, UnitName(RepoA.owner, RepoA.name), 9)) :
        doc \in PlainDocuments}

----------------------------------------------------------------------------
(* scraper.py: scrape_awesome_repo, lines 25-95                             *)

\* skill_paths, lines 108-113, in list order: branch and path of each probe
SkillPaths ==
    << <<"main", "SKILL.md">>, <<"master", "SKILL.md">>,
       <<"main", "skills", "SKILL.md">>, <<"master", "skills", "SKILL.md">> >>

\* what a HEAD request gives: a status, or an exception
ProbeOutcomes == {"200", "404", "500", "error"}

\* the test of line 118 with the plausible slip of taking any reply for a hit
ProbeFoundAnyReply(outcome) == outcome # "error"

\* line 118: response.status_code == 200; an exception goes on to the next
ProbeFound(outcome) == outcome = "200"

\* the record lines 53-59 and 76-91 build for the seed repository itself
SeedRecord(seed, description) == DictSet(seed, "description", description)

NoDescriptionText == "No description available"

SaIdle == [pc |-> "idle", seed |-> RepoOf(<<>>, <<>>), probes |-> <<>>,
           fetches |-> <<>>, extracted |-> FALSE, result |-> <<>>]

\* lines 37-45: the URL is split; fewer than two path parts end the call
ScrapeParseUrl ==
    /\ sa.pc = "parse"
    /\ \E valid \in BOOLEAN :
          sa' = [sa EXCEPT !.pc = IF valid THEN "probe" ELSE "done"]
    /\ UNCHANGED <<storeVars, extVars, mn, gen, pm, dt, cp, en>>

\* one pass of the loop of lines 115-122
ProbeStep ==
    /\ sa.pc = "probe" /\ Len(sa.probes) < Len(SkillPaths)
    /\ \E outcome \in ProbeOutcomes :
          sa' = [sa EXCEPT
                    !.probes = Append(@, [path |-> SkillPaths[Len(sa.probes) + 1],
                                          outcome |-> outcome]),
                    !.pc = IF ProbeFound(outcome) THEN "direct" ELSE "probe"]
    /\ UNCHANGED <<storeVars, extVars, mn, gen, pm, dt, cp, en>>

\* line 124: return False
ProbeEnd ==
    /\ sa.pc = "probe" /\ Len(sa.probes) = Len(SkillPaths)
    /\ sa' = [sa EXCEPT !.pc = "readme"]
    /\ UNCHANGED <<storeVars, extVars, mn, gen, pm, dt, cp, en>>

\* lines 51-61: the seed itself, with the description fetch_repo_details
\* reads from its README (or the placeholder when the fetch fails)
ScrapeDirect ==
    /\ sa.pc = "direct"
    /\ \E description \in {"d1", NoDescriptionText} :
          sa' = [sa EXCEPT !.pc = "done",
                           !.fetches = Append(@, "details"),
                           !.result = <<SeedRecord(sa.seed, description)>>]
    /\ UNCHANGED <<storeVars, extVars, mn, gen, pm, dt, cp, en>>

\* lines 63-95: the README is fetched and its links extracted; a failed
\* fetch, or a README without links, gives the seed as a standalone record
ScrapeReadme ==
    /\ sa.pc = "readme"
    /\ \/ sa' = [sa EXCEPT !.pc = "done",
                           !.fetches = Append(@, "links"),
                           !.result = <<SeedRecord(sa.seed, NoDescriptionText)>>]
       \/ \E matches \in {ms \in MatchLists : Len(ms) <= 1}, description \in {"d1", NoDescriptionText} :
             LET repos == ExtractRepos(matches)
             IN  sa' = [sa EXCEPT !.pc = "done",
                                  !.fetches = Append(@, "links"),
                                  !.extracted = TRUE,
                                  !.result = IF repos = <<>>
                                             THEN <<SeedRecord(sa.seed, description)>>
                                             ELSE repos]
    /\ UNCHANGED <<storeVars, extVars, mn, gen, pm, dt, cp, en>>

\* no call of the unit-level operations in progress
UnitIdle == cp = CpIdle /\ en = EnIdle /\ sa = SaIdle

AuxIdle == gen = GenIdle /\ pm = PmIdle /\ dt = DtIdle /\ UnitIdle

----------------------------------------------------------------------------
(* Specifications                                                          *)

StoreIdle ==
    /\ storage_file = NoFile
    /\ sv = SvIdle
    /\ mg = MgIdle
    /\ sc = ScIdle

RepoNames == {r.full_name : r \in Repos}

ExtractorIdle ==
    /\ cfg = [mode |-> "metadata", skip_existing |-> TRUE, update_existing |-> FALSE,
              confirm_extraction |-> TRUE, install_location |-> "global",
              max_skills_per_repo |-> DefaultMaxSkillsPerRepo]
    /\ remote = [r \in RepoNames |-> {}]
    /\ installed = [local |-> EmptyDir, global |-> EmptyDir]
    /\ staging = [exists |-> FALSE, dirs |-> EmptyDir]
    /\ tmpdirs = {}
    /\ ex = ExIdle
    /\ ins = InsIdle
    /\ caller = CallerIdle
    /\ mn = MnIdle

\* units installed by an earlier run, under either root
PreInstalled ==
    {EmptyDir, [n \in {UnitName(<<"o">>, <<"foo">>)} |-> OldUnit]}

\* any ExtractionConfig an extractor can be built with
ExtractorConfigs ==
    [mode : {"extract"}, skip_existing : BOOLEAN, update_existing : BOOLEAN,
     confirm_extraction : {FALSE}, install_location : Locations,
     max_skills_per_repo : {SmallMaxSkillsPerRepo, DefaultMaxSkillsPerRepo}]

\* SkillExtractor.__init__, lines 17-33, and a caller about to make one
\* extract_skills call on a repository holding any tree
InitExtract ==
    /\ StoreIdle
    /\ cfg \in ExtractorConfigs
    /\ \E r \in RepoNames, t \in RemoteTrees :
          remote = [x \in RepoNames |-> IF x = r THEN t ELSE {}]
    /\ installed \in [local : PreInstalled, global : PreInstalled]
    /\ staging = [exists |-> TRUE, dirs |-> EmptyDir]
    /\ tmpdirs = {}
    /\ ex = ExIdle
    /\ ins = InsIdle
    /\ caller = CallerPlan(1, 0)
    /\ mn = MnIdle
    /\ AuxIdle

NextExtract ==
    \/ ExtractSkillsCall
    \/ ExtractClone
    \/ ExtractFind
    \/ ExtractSingleSkill
    \/ ExtractLoopEnd
    \/ ExtractFinally
    \/ ExtractSkillsReturn

SpecExtract == InitExtract /\ [][NextExtract]_vars

\* the remote repositories of a session: units of one name in both, a nested
\* unit, and a unit of the second repository alone
SessionRemotes ==
    { [x \in RepoNames |-> IF x = RepoA.full_name
                           THEN {<<"skills", "foo">>, <<"skills", "foo", "deep">>}
                           ELSE {<<"bar">>}],
      [x \in RepoNames |-> IF x = RepoA.full_name
                           THEN {<<"skills", "foo">>}
                           ELSE {<<"skills", "foo">>, <<>>}] }

\* a session of a caller: extractions, a clean-up of the staging area at any
\* point between calls, then the install of a selection of the units held
InitSession ==
    /\ StoreIdle
    /\ cfg \in [mode : {"extract"}, skip_existing : {TRUE}, update_existing : BOOLEAN,
                confirm_extraction : {FALSE}, install_location : Locations,
                max_skills_per_repo : {DefaultMaxSkillsPerRepo}]
    /\ remote \in SessionRemotes
    /\ installed \in {[local |-> EmptyDir, global |-> d] : d \in PreInstalled}
    /\ staging = [exists |-> TRUE, dirs |-> EmptyDir]
    /\ tmpdirs = {}
    /\ ex = ExIdle
    /\ ins = InsIdle
    /\ caller = CallerPlan(MaxExtractions, MaxInstalls)
    /\ mn = MnIdle
    /\ AuxIdle

Next ==
    \/ ExtractSkillsCall
    \/ ExtractClone
    \/ ExtractFind
    \/ ExtractSingleSkill
    \/ ExtractLoopEnd
    \/ ExtractFinally
    \/ ExtractSkillsReturn
    \/ InstallSkillsCall
    \/ InstallStep
    \/ InstallLoopEnd
    \/ InstallReturn
    \/ CleanupStaging

Spec == InitSession /\ [][Next]_vars

\* what repos.json holds when main() starts
StoredAtStart ==
    {NoFile, FileOf(<<>>), FileOf(<<DictSet(RepoA, "scraped_at", 1)>>)}

\* main() is entered: no extractor yet, units of an earlier run may be installed
InitMain ==
    /\ storage_file \in StoredAtStart
    /\ sv = SvIdle /\ mg = MgIdle /\ sc = ScIdle
    /\ cfg = ExtractionConfig("metadata", TRUE, "global", FALSE)
    /\ remote \in SessionRemotes
    /\ installed \in {[local |-> EmptyDir, global |-> d] : d \in PreInstalled}
    /\ staging = [exists |-> FALSE, dirs |-> EmptyDir]
    /\ tmpdirs = {}
    /\ ex = ExIdle
    /\ ins = InsIdle
    /\ caller = CallerIdle
    /\ mn = MainStart
    /\ AuxIdle

NextMain ==
    \/ MainExit
    \/ MainScrape
    \/ MainLoad
    \/ MainConfigure
    \/ MainSelectRepos
    \/ MainLoopStep
    \/ ExtractClone
    \/ ExtractFind
    \/ ExtractSingleSkill
    \/ ExtractLoopEnd
    \/ ExtractFinally
    \/ MainAfterExtract
    \/ MainGenerate
    \/ MainShowSummary
    \/ MainRaise
    \/ MainFinally

SpecMain == InitMain /\ [][NextMain]_vars

\* SkillGenerator.__init__, lines 13-16: the root exists and may hold a unit
\* of the name a call will derive
InitGenerator ==
    /\ StoreIdle
    /\ cfg = ExtractionConfig("metadata", TRUE, "global", FALSE)
    /\ remote = [r \in RepoNames |-> {}]
    /\ installed \in {[local |-> EmptyDir, global |-> d] :
                         d \in {EmptyDir, [n \in {GeneratedName(RepoB)} |-> OldUnit]}}
    /\ staging = [exists |-> FALSE, dirs |-> EmptyDir]
    /\ tmpdirs = {}
    /\ ex = ExIdle /\ ins = InsIdle /\ caller = CallerIdle /\ mn = MnIdle
    /\ AuxIdle

NextGenerator ==
    \/ GenerateSkillCall
    \/ GenerateSkillCheck
    \/ GenerateSkillWrite
    \/ GenerateSkillReturn

SpecGenerator == InitGenerator /\ [][NextGenerator]_vars

\* documents whose links are to a/x and b/xx, in any order, repeated or
\* followed by a full stop
ScenarioDocuments ==
    {ms \in MatchLists :
        {RepoKey(ms[i].owner, RStripDot(ms[i].repo_name)) : i \in DOMAIN ms}
            = {<<"a", "/", "x">>, <<"b", "/", "x", "x">>}}

\* discovery on such a document, then generation, on an empty root
InitScenario ==
    /\ storage_file = NoFile /\ sv = SvIdle /\ mg = MgIdle
    /\ ExtractorIdle
    /\ AuxIdle
    /\ \E ms \in ScenarioDocuments : sc = [pc |-> "call", matches |-> ms, repos |-> <<>>]

NextScenario ==
    \/ ExtractReposApply
    \/ GenerateForNextRecord
    \/ GenerateSkillCheck
    \/ GenerateSkillWrite
    \/ GenerateSkillReturn

SpecScenario == InitScenario /\ [][NextScenario]_vars

\* a direct call of detect_skills, whatever the two requests give
InitDetect ==
    /\ StoreIdle
    /\ ExtractorIdle
    /\ gen = GenIdle /\ pm = PmIdle /\ UnitIdle
    /\ \E readme \in {r \in Readmes : ReadmeConsistent(r)}, tree \in Trees :
          dt = [DtIdle EXCEPT !.pc = "call", !.readme = readme, !.tree = tree]

SpecDetect == InitDetect /\ [][DetectSkillsApply]_vars

\* a direct call of _parse_skill_metadata on any document, as the tests make it
InitParse ==
    /\ StoreIdle
    /\ ExtractorIdle
    /\ gen = GenIdle /\ dt = DtIdle /\ UnitIdle
    /\ \E file \in {NoDoc} \cup {[exists |-> TRUE, lines |-> d] : d \in Documents} :
          pm = [PmIdle EXCEPT !.pc = "call", !.file = file]

NextParse == ParseSkillMetadataApply \/ SkillEntryBuild

SpecParse == InitParse /\ [][NextParse]_vars

\* a direct call of _copy_skill_files, as the tests make it
InitCopy ==
    /\ StoreIdle
    /\ ExtractorIdle
    /\ gen = GenIdle /\ pm = PmIdle /\ dt = DtIdle /\ en = EnIdle /\ sa = SaIdle
    /\ \E source \in CopySources, target \in CopyTargets :
          cp = [pc |-> "loop", source |-> source, target |-> target,
                before |-> target, todo |-> DOMAIN source]

NextCopy == CopyItem \/ CopySkillFilesReturn

SpecCopy == InitCopy /\ [][NextCopy]_vars

\* _enrich_skill_metadata on a staged document, again and again
InitEnrich ==
    /\ StoreIdle
    /\ ExtractorIdle
    /\ gen = GenIdle /\ pm = PmIdle /\ dt = DtIdle /\ cp = CpIdle /\ sa = SaIdle
    /\ \E exists \in BOOLEAN, doc \in EnrichedDocuments, repo \in Repos, c \in {0, 9, 10} :
          en = [EnIdle EXCEPT !.pc = "staged", !.exists = exists,
                              !.content = IF exists THEN doc ELSE <<>>,
                              !.repo = repo, !.confidence = c]

SpecEnrich == InitEnrich /\ [][EnrichSkillMetadataApply]_vars

\* scrape_awesome_repo is called with a URL
InitProbe ==
    /\ StoreIdle
    /\ ExtractorIdle
    /\ gen = GenIdle /\ pm = PmIdle /\ dt = DtIdle /\ cp = CpIdle /\ en = EnIdle
    /\ \E seed \in Repos : sa = [SaIdle EXCEPT !.pc = "parse", !.seed = seed]

NextProbe ==
    \/ ScrapeParseUrl
    \/ ProbeStep
    \/ ProbeEnd
    \/ ScrapeDirect
    \/ ScrapeReadme

SpecProbe == InitProbe /\ [][NextProbe]_vars

InitStorage == StoreIdle /\ ExtractorIdle /\ AuxIdle

InitMerge ==
    /\ storage_file = NoFile
    /\ sv = SvIdle
    /\ sc = ScIdle
    /\ ExtractorIdle /\ AuxIdle
    /\ \E e \in KeyedLists(AnyRecords), n \in KeyedLists(AnyRecords) :
          mg = [pc |-> "call", existing |-> e, new |-> n, out |-> <<>>,
                existing0 |-> e, new0 |-> n]

InitScraper ==
    /\ storage_file = NoFile
    /\ sv = SvIdle
    /\ mg = MgIdle
    /\ ExtractorIdle /\ AuxIdle
    /\ \E ms \in MatchLists : sc = [pc |-> "call", matches |-> ms, repos |-> <<>>]

NextStorage == SaveReposCall \/ SaveReposBody \/ SaveReposReturn

SpecStorage == InitStorage /\ [][NextStorage]_vars

SpecMerge == InitMerge /\ [][MergeReposApply]_vars

SpecScraper == InitScraper /\ [][ExtractReposApply]_vars

----------------------------------------------------------------------------
(* Claims on the persistence store                                         *)

RecordOf(list, key) == list[CHOOSE i \in DOMAIN list : list[i]["full_name"] = key]

\* C2: for lists E and N, _merge_repos(E, N) holds exactly one record for each
\* full_name of E or N and no other; for a key of both, every field of the N
\* record has N's value and every field only in the E record keeps E's value.
C2_MergeCorrect ==
    mg.pc = "done" =>
        /\ Keys(mg.out) = Keys(mg.existing0) \cup Keys(mg.new0)
        /\ UniqueKeys(mg.out)
        /\ \A k \in Keys(mg.existing0) \cap Keys(mg.new0) :
              LET e == RecordOf(mg.existing0, k)
                  n == RecordOf(mg.new0, k)
                  o == RecordOf(mg.out, k)
              IN  /\ \A f \in DOMAIN n : f \in DOMAIN o /\ o[f] = n[f]
                  /\ \A f \in DOMAIN e \ DOMAIN n : f \in DOMAIN o /\ o[f] = e[f]

\* a merge in which one key is on both sides, the N record overrides a field
\* with another value and the E record has a field N lacks, beside a key of
\* N alone
C2_Witness ==
    /\ mg.pc = "done"
    /\ Len(mg.out) = 2
    /\ Keys(mg.new0) \ Keys(mg.existing0) # {}
    /\ \E k \in Keys(mg.existing0) \cap Keys(mg.new0) :
          LET e == RecordOf(mg.existing0, k)
              n == RecordOf(mg.new0, k)
          IN  /\ "description" \in DOMAIN e /\ "description" \in DOMAIN n
              /\ e["description"] # n["description"]
              /\ "scraped_at" \in DOMAIN e \ DOMAIN n

C10_MergeOnlyWhenAskedAndExisting ==
    sv.pc = "done" =>
        IF sv.merge /\ sv.before.exists
        THEN /\ Keys(storage_file.content) = Keys(sv.before.content) \cup Keys(sv.repos)
             /\ \A k \in Keys(sv.before.content) \ Keys(sv.repos) :
                   RecordOf(storage_file.content, k) = RecordOf(sv.before.content, k)
        ELSE /\ storage_file = FileOf(sv.repos)
             /\ Keys(storage_file.content) \cap (Keys(sv.before.content) \ Keys(sv.repos)) = {}

\* an overwriting save that drops a stored record, after a merging save kept one
C10_Witness ==
    /\ sv.pc = "done" /\ ~sv.merge /\ sv.before.exists
    /\ Keys(sv.before.content) \ Keys(sv.repos) # {}
    /\ sv.repos # <<>>

----------------------------------------------------------------------------
(* Claims on the link extractor                                            *)

\* `name` is `raw` without its trailing dots
IsStripped(name, raw) ==
    /\ Len(name) <= Len(raw)
    /\ \A i \in 1..Len(name) : name[i] = raw[i]
    /\ \A i \in Len(name) + 1..Len(raw) : raw[i] = "."
    /\ Len(name) > 0 => name[Len(name)] # "."

\* the match a record was built from: the first one with its owner and name
FirstMatchOf(rec, matches) ==
    CHOOSE i \in DOMAIN matches :
        /\ matches[i].owner = rec.owner /\ IsStripped(rec.name, matches[i].repo_name)
        /\ \A j \in 1..i - 1 :
              ~(matches[j].owner = rec.owner /\ IsStripped(rec.name, matches[j].repo_name))

\* C5: _extract_repos returns exactly one record per distinct owner/name key
\* matched, name being the captured segment without trailing dots, in the
\* order of first occurrence, later occurrences adding nothing, each record
\* with full_name = owner + "/" + name.
C5_ExtractReposDedup ==
    sc.pc = "done" =>
        /\ \A i \in DOMAIN sc.matches : \E r \in Range(sc.repos) :
              r.owner = sc.matches[i].owner /\ IsStripped(r.name, sc.matches[i].repo_name)
        /\ \A p \in DOMAIN sc.repos : \E i \in DOMAIN sc.matches :
              /\ sc.repos[p].owner = sc.matches[i].owner
              /\ IsStripped(sc.repos[p].name, sc.matches[i].repo_name)
        /\ \A p, q \in DOMAIN sc.repos :
              /\ (sc.repos[p].owner = sc.repos[q].owner /\ sc.repos[p].name = sc.repos[q].name)
                    => p = q
              /\ sc.repos[p].full_name = sc.repos[q].full_name => p = q
              /\ p < q => FirstMatchOf(sc.repos[p], sc.matches)
                              < FirstMatchOf(sc.repos[q], sc.matches)
        /\ \A p \in DOMAIN sc.repos :
              sc.repos[p].full_name = sc.repos[p].owner \o <<"/">> \o sc.repos[p].name

\* a document where a key recurs with and without a trailing dot, after a
\* different key came first
C5_Witness ==
    /\ sc.pc = "done"
    /\ Len(sc.matches) = 3 /\ Len(sc.repos) = 2
    /\ sc.matches[2].repo_name = <<"x", ".">>
    /\ sc.matches[3].repo_name = <<"x">>
    /\ sc.matches[2].owner = sc.matches[3].owner
    /\ sc.matches[1].owner # sc.matches[2].owner

----------------------------------------------------------------------------
(* Claims on extract_skills                                                *)

OwnerDash(repo, segment) == repo.owner \o <<"-">> \o <<segment>>

\* C1: with skip_existing on and update_existing off, a marker file whose
\* derived unit name already exists under the installation root is counted
\* as skipped, neither extracted nor failed, nothing is staged for it, and
\* the extraction leaves the installed directories as they were.
C1_SkipExisting ==
    [][ (cfg.skip_existing /\ ~cfg.update_existing) =>
            /\ ex.pc # "idle" => installed' = installed
            /\ (InLoop /\ CurrentName \in DOMAIN installed[SkillsDir(cfg)]) =>
                  /\ ex'.result.skipped_count = ex.result.skipped_count + 1
                  /\ ex'.result.extracted_count = ex.result.extracted_count
                  /\ ex'.result.failed_count = ex.result.failed_count
                  /\ ex'.result.skills = ex.result.skills
                  /\ staging' = staging ]_vars

\* the unit o-foo was installed before, the clone holds skills/foo, and the
\* call returned having skipped it and staged nothing under that name
C1_Witness ==
    /\ ex.pc = "returned"
    /\ cfg.skip_existing /\ ~cfg.update_existing
    /\ \E k \in DOMAIN ex.processed :
          /\ ex.processed[k].outcome = "skipped"
          /\ ex.processed[k].skill_name = UnitName(<<"o">>, <<"foo">>)
    /\ ex.result.skipped_count >= 1
    /\ ~StagingHas(staging, UnitName(<<"o">>, <<"foo">>))
    /\ installed[SkillsDir(cfg)][UnitName(<<"o">>, <<"foo">>)] = OldUnit

\* C3: a marker file directly in the clone root, or in a folder named like
\* the repository, gets the unit name owner-reponame, the same on every run.
C3_RootNamedOwnerRepo ==
    \A k \in DOMAIN ex.processed :
        LET path == ex.processed[k].path
        IN  (path = <<>> \/ <<path[Len(path)]>> = ex.repo.name)
                => ex.processed[k].skill_name = ex.repo.owner \o <<"-">> \o ex.repo.name

\* C4: for a marker file whose folder is neither the clone root nor named
\* like the repository, the unit name is owner-<first folder under skills>
\* when the path starts with skills/<subfolder>, whatever lies below, and
\* owner-<containing folder> otherwise.
C4_SkillsSubfolderOrFolderName ==
    \A k \in DOMAIN ex.processed :
        LET path == ex.processed[k].path
        IN  (path # <<>> /\ <<path[Len(path)]>> # ex.repo.name) =>
                ex.processed[k].skill_name =
                    IF path[1] = "skills" /\ Len(path) >= 2
                    THEN OwnerDash(ex.repo, path[2])
                    ELSE OwnerDash(ex.repo, path[Len(path)])

\* one clone with a unit nested below skills/foo and a folder outside skills
C4_Witness ==
    /\ ex.pc = "returned"
    /\ Len(ex.processed) = 2
    /\ ex.processed[1].path = <<"skills", "foo", "deep">>
    /\ ex.processed[1].skill_name = <<"o", "-", "foo">>
    /\ ex.processed[2].path = <<"bar">>
    /\ ex.processed[2].skill_name = <<"o", "-", "bar">>

\* C8: when the clone exits non-zero, times out or raises, extract_skills
\* returns success = False, all three counts 0 and no skills; and whenever
\* extract_skills has returned, its temporary clone directory is gone.
C8_CloneFailureAndCleanup ==
    /\ ex.pc = "returned" =>
          /\ ex.temp_dir \notin tmpdirs
          /\ ex.clone \in {"nonzero", "timeout", "raises"} => ex.result = ZeroResult
    /\ ex.pc = "idle" => tmpdirs = {}
    /\ ex.pc \in {"finally", "returned"} => ex.clone # "none"

\* a clone of a repository that holds units timed out and the call returned
C8_Witness ==
    /\ ex.pc = "returned"
    /\ ex.clone = "timeout"
    /\ remote[ex.repo.full_name] # {}
    /\ ex.result = ZeroResult
    /\ tmpdirs = {}

----------------------------------------------------------------------------
(* Claims on install_skills                                                *)

\* C7: install_skills goes through its list in order; a unit whose staging
\* path is missing, or whose copy raises, adds one to failed and one entry to
\* errors; every other unit is installed under its root from the staging
\* area; on return success + failed is the length of the list and errors has
\* failed entries.
C7_InstallContinues ==
    /\ [](ins.pc = "done" =>
            /\ ins.result.success + ins.result.failed = Len(ins.list)
            /\ Len(ins.result.errors) = ins.result.failed
            /\ Len(ins.log) = Len(ins.list))
    /\ [][ (ins.pc = "loop" /\ ins'.pc = "loop" /\ ins'.i # ins.i) =>
             LET skill == ins.list[ins.i]
                 name  == skill["name"]
                 base  == SkillsBaseDir(skill, cfg)
                 fate  == ins'.log[ins.i]
             IN  /\ ins'.i = ins.i + 1
                 /\ Len(ins'.log) = ins.i
                 /\ ~StagingHas(staging, skill["staging_path"]) => fate = "missing"
                 /\ fate \in {"missing", "raised"} =>
                       /\ ins'.result.failed = ins.result.failed + 1
                       /\ ins'.result.success = ins.result.success
                       /\ Len(ins'.result.errors) = Len(ins.result.errors) + 1
                       /\ ins'.result.errors[Len(ins'.result.errors)][1] = name
                 /\ fate \notin {"missing", "raised"} =>
                       /\ ins'.result.success = ins.result.success + 1
                       /\ ins'.result.failed = ins.result.failed
                       /\ ins'.result.errors = ins.result.errors
                       /\ name \in DOMAIN installed'[base]
                       /\ installed'[base][name] = staging.dirs[name] ]_vars

\* a list of three units: the copy of the first raised, the second was
\* installed, the staging path of the third is gone
C7_Witness ==
    /\ ins.pc = "done"
    /\ \E i, j, k \in DOMAIN ins.log :
          /\ i < j /\ ins.log[i] = "raised" /\ ins.log[j] = "installed"
          /\ ins.log[k] = "missing"
          /\ ins.list[j]["name"] \in DOMAIN installed[SkillsBaseDir(ins.list[j], cfg)]
    /\ ins.result.failed = 2 /\ ins.result.success >= 1

----------------------------------------------------------------------------
(* Claims on the workflow of main()                                        *)

\* C6: in a batch run through main() in an extracting mode, clone failures
\* of some repositories do not stop the batch: when main() is over, every
\* repository whose clone succeeded and that yielded units has those units
\* installed under the installation root, and the summary has been shown.
C6_BatchInstallsAndSummarises ==
    (mn.pc = "done" /\ mn.selected # <<>> /\ cfg.mode \in {"extract", "both"}) =>
        /\ mn.summary = 1
        /\ \A k \in DOMAIN mn.extractions :
              LET e == mn.extractions[k]
              IN  e.clone = "ok" =>
                     \A j \in DOMAIN e.result.skills :
                         LET name == e.result.skills[j]["name"]
                         IN  /\ name \in DOMAIN installed[SkillsDir(cfg)]
                             /\ installed[SkillsDir(cfg)][name] # OldUnit

----------------------------------------------------------------------------
(* Claims on storage round trips and purity                                *)

\* C11: saving, without merge and without a source, the collection just
\* loaded from a file that save_repos wrote leaves a file that loads to the
\* same records in the same order; and whatever the source passed, a record
\* that carries scraped_at and source is written back as it was.
C11_SaveLoadRoundTrip ==
    [][ (sv.pc = "body" /\ Exists(storage_file) /\ ~sv.merge
           /\ sv.repos = LoadRepos(storage_file)) =>
          /\ sv.source = NoSource => LoadRepos(storage_file') = LoadRepos(storage_file)
          /\ Len(LoadRepos(storage_file')) = Len(sv.repos)
          /\ \A i \in DOMAIN sv.repos :
                {"scraped_at", "source"} \subseteq DOMAIN sv.repos[i]
                    => LoadRepos(storage_file')[i] = sv.repos[i] ]_vars

\* a stored collection of two records, stamped at an earlier time, was
\* loaded and saved again at a later time and the file is as before
C11_Witness ==
    /\ sv.pc = "done"
    /\ ~sv.merge /\ sv.source = NoSource
    /\ Exists(sv.before) /\ Len(sv.before.content) = 2
    /\ \A i \in DOMAIN sv.before.content : sv.before.content[i]["scraped_at"] # sv.timestamp
    /\ \E i \in DOMAIN sv.before.content : "source" \in DOMAIN sv.before.content[i]
    /\ sv.repos = sv.before.content
    /\ storage_file = sv.before

\* C12: _merge_repos is pure: after the call the list existing, the list new
\* and every record in them are as they were before it.
C12_MergePure ==
    mg.pc = "done" => mg.existing = mg.existing0 /\ mg.new = mg.new0

----------------------------------------------------------------------------
(* Claims on generate_skill                                                *)

\* C13: whenever generate_skill returns False, because the folder exists or
\* because the write failed, the installation roots hold what they held
\* before the call; and a call for a record whose earlier call returned True
\* returns False.
C13_FalseLeavesRootUntouched ==
    /\ (gen.pc = "done" /\ ~gen.result) => installed = gen.before
    /\ gen.pc = "done" =>
          \A k \in DOMAIN gen.log :
              (gen.log[k].repo = gen.repo /\ gen.log[k].result) =>
                  /\ ~gen.result
                  /\ installed[GeneratorRoot][GeneratedName(gen.repo)] = GeneratedUnit(gen.repo)

\* a first call wrote the unit of o/r, a call for o/q failed in the write, and
\* a second call for o/r has returned False
C13_Witness ==
    /\ gen.pc = "done" /\ ~gen.result /\ gen.io = "none"
    /\ gen.repo = RepoA
    /\ \E j, k \in DOMAIN gen.log :
          /\ gen.log[j].repo = RepoA /\ gen.log[j].result
          /\ gen.log[k].io = "write_raises" /\ ~gen.log[k].result
    /\ DOMAIN installed[GeneratorRoot] = {GeneratedName(RepoA)}
    /\ installed = gen.before

----------------------------------------------------------------------------
(* Claims on _parse_skill_metadata                                         *)

\* the block as a reader sees it: an opening "---" line, the lines up to the
\* next "---" line
RECURSIVE NextDash(_, _)
NextDash(lines, from) ==
    IF from > Len(lines) THEN 0
    ELSE IF lines[from] = Dash THEN from ELSE NextDash(lines, from + 1)

BeginsWithBlock(lines) == Len(lines) >= 2 /\ lines[1] = Dash /\ NextDash(lines, 2) # 0

BlockValues(lines, key) ==
    {lines[i].value : i \in {j \in 2..(NextDash(lines, 2) - 1) :
                               lines[j].kind = "kv" /\ Lower(lines[j].key) = key}}

Parsed == pm.pc = "done" /\ pm.file.exists /\ pm.io = "ok"

\* C15: on a document that begins with a "---"-delimited block, the parsed
\* name is the value of the block's name line, the parsed description the
\* (non-empty) value of its description line, and the result has the keys
\* name, description and content only.
C15_FrontmatterValues ==
    (Parsed /\ BeginsWithBlock(pm.file.lines)) =>
        LET names == BlockValues(pm.file.lines, "name")
            descriptions == BlockValues(pm.file.lines, "description") \ {EmptyStr}
        IN  /\ names # {} => pm.result["name"] \in names
            /\ descriptions # {} => pm.result["description"] \in descriptions
            /\ DOMAIN pm.result = {"name", "description", "content"}

\* C16: when the block yields no description, the parsed description is the
\* line right after the first heading line, when that line is neither blank
\* nor a heading, cut to 200 characters; and the placeholder otherwise.
C16_FallbackDescription ==
    (Parsed /\ (BeginsWithBlock(pm.file.lines) =>
                    BlockValues(pm.file.lines, "description") \subseteq {EmptyStr})) =>
        LET lines == pm.file.lines
            headings == {i \in DOMAIN lines : lines[i].kind = "h1"}
            first == CHOOSE i \in headings : \A j \in headings : i <= j
        IN  IF /\ headings # {}
               /\ first + 1 <= Len(lines)
               /\ lines[first + 1].kind \notin {"blank", "h1", "hn"}
            THEN /\ pm.result["description"].s = LineStr(lines[first + 1]).s
                 /\ pm.result["description"].len <= DescriptionLimit
            ELSE pm.result["description"] = NoDescription

----------------------------------------------------------------------------
(* Claims on discovery followed by generation                              *)

ScenarioOver == sc.pc = "done" /\ gen.pc = "idle" /\ Len(gen.log) = Len(sc.repos)

\* C14: after the links of a document referencing a/x and b/xx are extracted
\* and generate_skill has run on each record, writes succeeding, the root,
\* empty before, holds exactly the folders a-x and b-xx, each with a SKILL.md
\* whose metadata name is a/x, respectively b/xx.
C14_DiscoverThenGenerate ==
    (ScenarioOver /\ \A k \in DOMAIN gen.log : gen.log[k].io = "ok") =>
        LET root == installed[GeneratorRoot]
            NameIn(unit) == ParseSkillMetadata(unit.doc.lines)["name"].s
        IN  /\ DOMAIN root = {<<"a", "-", "x">>, <<"b", "-", "x", "x">>}
            /\ root[<<"a", "-", "x">>].complete /\ root[<<"b", "-", "x", "x">>].complete
            /\ NameIn(root[<<"a", "-", "x">>]) = <<"a", "/", "x">>
            /\ NameIn(root[<<"b", "-", "x", "x">>]) = <<"b", "/", "x", "x">>
            /\ installed["local"] = EmptyDir
            /\ \A k \in DOMAIN gen.log : gen.log[k].result

\* a document naming b/xx first and a/x twice, once before a full stop
C14_Witness ==
    /\ ScenarioOver
    /\ Len(sc.matches) = 3 /\ Len(sc.repos) = 2
    /\ sc.matches[2].repo_name = <<"x", ".">>
    /\ sc.repos[1]["full_name"] = <<"b", "/", "x", "x">>
    /\ \A k \in DOMAIN gen.log : gen.log[k].result
    /\ DOMAIN installed[GeneratorRoot] = {<<"a", "-", "x">>, <<"b", "-", "x", "x">>}

----------------------------------------------------------------------------
(* Claims on detect_skills                                                 *)

\* C17: a detection result with n indicators has confidence 0, 0.3, 0.6, 0.9
\* for n = 0, 1, 2, 3 and 1.0 for every n >= 4 (here in tenths), and
\* is_skill_repo is true exactly when n > 0.
C17_ConfidenceFormula ==
    dt.pc = "done" =>
        LET n == Len(dt.result.indicators)
        IN  /\ dt.result.confidence =
                  CASE n = 0 -> 0 [] n = 1 -> 3 [] n = 2 -> 6 [] n = 3 -> 9 [] OTHER -> 10
            /\ dt.result.is_skill_repo <=> n > 0

\* a README with keywords and mentions of skill.md, and a tree with a
\* skills folder: seven indicators or more, confidence 1.0
C17_Witness ==
    /\ dt.pc = "done"
    /\ Len(dt.result.indicators) >= 7
    /\ dt.result.confidence = 10
    /\ dt.result.is_skill_repo
    /\ \E i \in DOMAIN dt.tree.paths : UnderSkills(dt.tree.paths[i])
    /\ dt.readme.mentions > 0

----------------------------------------------------------------------------
(* Claims on the ends of main()                                            *)

\* C18: once the try block of main() is entered, scraper.close() and
\* detector.close() are each called exactly once before main returns, on
\* every path; no path stops short of the finally block.
C18_ClientsClosedOnce ==
    /\ mn.pc = "done" => mn.closes = [scraper |-> 1, detector |-> 1]
    /\ mn.pc # "done" => mn.closes = [scraper |-> 0, detector |-> 0] /\ ENABLED NextMain

\* main() is over after an interrupt during a clone, both clients closed
C18_Witness ==
    /\ mn.pc = "done"
    /\ mn.error = "KeyboardInterrupt"
    /\ mn.selected # <<>> /\ mn.i = 1
    /\ staging.exists
    /\ mn.closes = [scraper |-> 1, detector |-> 1]

\* C19: in mode metadata or both, unless the user interrupts, main() runs the
\* generator on every selected repository, counts each as successful or
\* failed, and shows the summary exactly once with successful + failed equal
\* to the number of selected repositories.
C19_GeneratorCountsAddUp ==
    (/\ mn.pc = "done" /\ mn.selected # <<>>
     /\ cfg.mode \in {"metadata", "both"}
     /\ mn.error \notin {"KeyboardInterrupt", "Exception"}) =>
        /\ mn.summary = 1
        /\ mn.successful + mn.failed = Len(mn.selected)

\* C20: distinct marker files handled by one extractor are never staged under
\* one name: the units of the extraction result differ pairwise in name and
\* in staging_path.
C20_StagedNamesUnique ==
    \A i, j \in DOMAIN ex.result.skills :
        i # j => /\ ex.result.skills[i]["name"] # ex.result.skills[j]["name"]
                 /\ ex.result.skills[i]["staging_path"] # ex.result.skills[j]["staging_path"]

----------------------------------------------------------------------------
(* Claims on the counts of extract_skills                                  *)

\* the marker folders of the cloned repository outside any .git directory
MarkersOutsideGit == {p \in remote[ex.repo.full_name] : ".git" \notin Range(p)}

Smaller(a, b) == IF a < b THEN a ELSE b

SumOfCounts(result) ==
    result.extracted_count + result.skipped_count + result.failed_count

\* C21: when the clone succeeded and extract_skills has returned, the three
\* counts add up to the smaller of the number of marker files found outside
\* .git and max_skills_per_repo, skills has extracted_count entries, and
\* success is true exactly when extracted_count > 0.  The files found are all
\* the marker files outside .git, or none when the walk itself failed.
C21_CountsAddUp ==
    (ex.pc = "returned" /\ ex.clone = "ok") =>
        /\ NoDup(ex.skill_files)
        /\ Range(ex.skill_files) \in {{}, MarkersOutsideGit}
        /\ SumOfCounts(ex.result) =
               Smaller(Len(ex.skill_files), cfg.max_skills_per_repo)
        /\ Len(ex.result.skills) = ex.result.extracted_count
        /\ ex.result.success <=> ex.result.extracted_count > 0

\* two marker files outside .git with a cap of one: one file processed and
\* extracted, the other left alone
C21_Witness ==
    /\ ex.pc = "returned" /\ ex.clone = "ok"
    /\ Cardinality(MarkersOutsideGit) = 2 /\ Len(ex.skill_files) = 2
    /\ cfg.max_skills_per_repo = SmallMaxSkillsPerRepo
    /\ ex.result.extracted_count = 1 /\ ex.result.success
    /\ Len(ex.processed) = 1

----------------------------------------------------------------------------
(* Claims on _copy_skill_files                                             *)

\* no dotfile and no __pycache__ directory at any depth
RECURSIVE JunkFree(_)
JunkFree(dir) ==
    \A n \in DOMAIN dir :
        /\ ~StartsWithDot(n)
        /\ ~(n = PyCache /\ IsDir(dir[n]))
        /\ IsDir(dir[n]) => JunkFree(dir[n].entries)

\* the entry is in dir under its name: a file with its content, a directory
\* with all its entries but dotfiles and __pycache__ directories
RECURSIVE Holds(_, _, _)
Holds(entry, dir, name) ==
    /\ name \in DOMAIN dir
    /\ IF ~IsDir(entry) THEN dir[name] = entry
       ELSE /\ IsDir(dir[name])
            /\ \A m \in DOMAIN entry.entries :
                  (StartsWithDot(m) \/ (m = PyCache /\ IsDir(entry.entries[m])))
                  \/ Holds(entry.entries[m], dir[name].entries, m)

\* C22: after _copy_skill_files the staged copy holds every plain file and
\* every subdirectory of the source folder but dotfiles and __pycache__
\* directories, which are nowhere in the staged copy, the copied
\* subdirectories included; a subdirectory already staged under the same
\* name is merged into, its entries kept, and the copy does not fail.
C22_StagedCopy ==
    /\ cp.pc = "done" =>
          /\ \A n \in DOMAIN cp.source :
                (StartsWithDot(n) \/ (n = PyCache /\ IsDir(cp.source[n])))
                \/ Holds(cp.source[n], cp.target, n)
          /\ JunkFree(cp.before) => JunkFree(cp.target)
          /\ \A n \in DOMAIN cp.source \cap DOMAIN cp.before :
                (IsDir(cp.source[n]) /\ IsDir(cp.before[n]) /\ ~SkippedItem(n)) =>
                    \A m \in DOMAIN cp.before[n].entries : m \in DOMAIN cp.target[n].entries
    /\ cp.pc = "raised" =>
          \A n \in DOMAIN cp.source \cap DOMAIN cp.before :
              SkippedItem(n) \/ ~(IsDir(cp.source[n]) /\ IsDir(cp.before[n]))

----------------------------------------------------------------------------
(* Claims on _enrich_skill_metadata                                        *)

\* C23: an enrichment that follows another on the same staged SKILL.md, both
\* having read and written the file, changes nothing: the document with the
\* footer of the first is not given a second footer.
C23_EnrichIdempotent ==
    \A k \in DOMAIN en.log :
        (k > 1 /\ en.exists /\ en.log[k - 1].io = "ok" /\ en.log[k].io = "ok") =>
            en.log[k].content = en.log[k - 1].content

----------------------------------------------------------------------------
(* Claims on the two steps of detect_skills                                *)

IndicatorsOf(types) ==
    SelectSeq(dt.result.indicators, LAMBDA ind : ind.type \in types)

\* the listed paths whose final component is SKILL.md, outside any .git
IsMarkerPath(path) ==
    path[Len(path)] = <<"SKILL.md">> /\ <<".git">> \notin Range(path)

\* C24: the tree scan counts a listed path exactly when its final component
\* is SKILL.md and no segment is .git: when there is such a path, there is one
\* repo_skill_md_files indicator whose skill_count and paths are the count and
\* the list of those paths, and none otherwise.
C24_TreeScanCountsMarkers ==
    (dt.pc = "done" /\ dt.tree.reply = "ok") =>
        LET markers == SelectSeq(dt.tree.paths, IsMarkerPath)
            found == IndicatorsOf({"repo_skill_md_files"})
        IN  IF markers = <<>> THEN found = <<>>
            ELSE /\ Len(found) = 1
                 /\ found[1].skill_count = Len(markers)
                 /\ found[1].paths = markers

\* C25: detect_skills returns a record whatever the two requests give: a
\* failed README fetch leaves no README indicator, a failed, rate-limited or
\* malformed tree listing leaves no tree indicator, and the indicators of the
\* other step are all there.
C25_DetectNeverRaises ==
    /\ dt.pc # "raised"
    /\ dt.pc = "done" =>
          LET fromReadme == IndicatorsOf({"readme_keyword", "readme_skill_md_mentions"})
              fromTree == IndicatorsOf({"repo_skill_md_files", "repo_skills_folder"})
          IN  /\ ~dt.readme.ok => fromReadme = <<>>
              /\ dt.tree.reply # "ok" => fromTree = <<>>
              /\ dt.readme.ok =>
                    Len(fromReadme) = Cardinality(dt.readme.keywords)
                                      + (IF dt.readme.mentions > 0 THEN 1 ELSE 0)
              /\ (dt.tree.reply = "ok" /\ dt.tree.paths # <<>>
                     /\ \A i \in DOMAIN dt.tree.paths : dt.tree.paths[i] = FooSkillMd) =>
                    Len(fromTree) = 2
              /\ dt.result.indicators = fromReadme \o fromTree

\* the tree reply was not JSON while the README named two keywords
C25_Witness ==
    /\ dt.pc = "done"
    /\ dt.tree.reply = "bad_json"
    /\ dt.readme.ok /\ Cardinality(dt.readme.keywords) = 2
    /\ Len(dt.result.indicators) >= 2
    /\ dt.result.is_skill_repo

----------------------------------------------------------------------------
(* Claims on scrape_awesome_repo                                           *)

ProbeHit == sa.probes # <<>> /\ sa.probes[Len(sa.probes)].outcome = "200"

\* C26: the probes are made in the order main/SKILL.md, master/SKILL.md,
\* main/skills/SKILL.md, master/skills/SKILL.md and end at the first 200, an
\* error counting as not found; after a 200 the result is the seed repository
\* alone and no links are extracted; the README is fetched for its links only
\* when all four probes failed.
C26_ProbeOrderAndDecision ==
    /\ Len(sa.probes) <= 4
    /\ \A k \in DOMAIN sa.probes :
          /\ sa.probes[k].path =
                << <<"main", "SKILL.md">>, <<"master", "SKILL.md">>,
                   <<"main", "skills", "SKILL.md">>,
                   <<"master", "skills", "SKILL.md">> >>[k]
          /\ k < Len(sa.probes) => sa.probes[k].outcome # "200"
    /\ (sa.pc = "done" /\ ProbeHit) =>
          /\ Len(sa.result) = 1
          /\ sa.result[1]["full_name"] = sa.seed.full_name
          /\ sa.result[1]["url"] = sa.seed.url
          /\ ~sa.extracted /\ sa.fetches = <<"details">>
    /\ (sa.pc = "done" /\ sa.probes # <<>> /\ ~ProbeHit) =>
          /\ Len(sa.probes) = 4
          /\ sa.fetches = <<"links">>
    /\ (sa.extracted \/ "links" \in Range(sa.fetches)) =>
          /\ Len(sa.probes) = 4
          /\ \A k \in DOMAIN sa.probes : sa.probes[k].outcome # "200"

\* the first probe raised, the second gave 404, the third 200: the seed alone
C26_Witness ==
    /\ sa.pc = "done"
    /\ Len(sa.probes) = 3
    /\ sa.probes[1].outcome = "error" /\ sa.probes[2].outcome = "404"
    /\ sa.probes[3].outcome = "200"
    /\ sa.probes[3].path = <<"main", "skills", "SKILL.md">>
    /\ Len(sa.result) = 1 /\ sa.result[1]["full_name"] = sa.seed.full_name
    /\ ~sa.extracted

----------------------------------------------------------------------------
(* Claims on what extraction and installation do to installed units        *)

\* C27: with skip_existing on and update_existing off, no step of a session
\* of extract_skills calls and an install_skills call on the returned units
\* removes or changes a unit that was installed, under either root, before
\* the session (OldUnit is the content only such a unit has).
C27_SkipExistingNeverClobbers ==
    [][ (cfg.skip_existing /\ ~cfg.update_existing) =>
            \A loc \in Locations : \A n \in DOMAIN installed[loc] :
                installed[loc][n] = OldUnit =>
                    (n \in DOMAIN installed'[loc] /\ installed'[loc][n] = OldUnit) ]_vars

\* C28: a pass of install_skills that records its unit as failed leaves a
\* unit installed under that name before the pass in place, content unchanged.
C28_FailedInstallKeepsOld ==
    [][ (ins.pc = "loop" /\ ins'.pc = "loop" /\ ins'.i = ins.i + 1
            /\ ins'.result.failed = ins.result.failed + 1) =>
            LET skill == ins.list[ins.i]
                base == SkillsBaseDir(skill, cfg)
                name == skill["name"]
            IN  name \in DOMAIN installed[base] =>
                    /\ name \in DOMAIN installed'[base]
                    /\ installed'[base][name] = installed[base][name] ]_vars

\* C29: the entry built for a staged unit has a non-empty skill_name, and
\* when the document declares no name in its block, skill_name is the derived
\* unit name.
C29_SkillNameNeverEmpty ==
    (pm.pc = "entry" /\ pm.io = "ok") =>
        /\ pm.entry.skill_name.len > 0
        /\ (~BeginsWithBlock(pm.file.lines) \/ BlockValues(pm.file.lines, "name") = {}) =>
              pm.entry.skill_name = DerivedName

\* C30: while extract_skills runs, nothing under the installation roots is
\* created, changed or removed, whatever the configuration; the roots change
\* only in a pass of install_skills.
C30_ExtractLeavesRootsAlone ==
    [][ /\ ex.pc # "idle" => installed' = installed
        /\ installed' # installed => (ins.pc = "loop" /\ ex.pc = "idle") ]_vars

\* update_existing is on, o-foo was installed before, and the call returned
\* having staged a new o-foo: the installed one is as it was
C30_Witness ==
    /\ ex.pc = "returned"
    /\ cfg.update_existing
    /\ UnitName(<<"o">>, <<"foo">>) \in DOMAIN installed[SkillsDir(cfg)]
    /\ installed[SkillsDir(cfg)][UnitName(<<"o">>, <<"foo">>)] = OldUnit
    /\ StagingHas(staging, UnitName(<<"o">>, <<"foo">>))
    /\ \E k \in DOMAIN ex.processed :
          /\ ex.processed[k].outcome = "extracted"
          /\ ex.processed[k].skill_name = UnitName(<<"o">>, <<"foo">>)

====
